---- MODULE Spec2Model ----
(***************************************************************************)
(* A model of the time-windowed variable monitors of hf-utils-general:     *)
(*   - VariableAnomalyMonitor<T> (std::deque backed), record am            *)
(*   - VariableMonitor<T,...>    (RingBuffer backed), record vm            *)
(* Time is the millisecond clock GetElapsedTimeMsec(); sample values are   *)
(* the int instantiation.  Slopes are kept as exact fractions n/d, with    *)
(* d = 0 standing for the IEEE results of a division by zero (NaN, +-inf). *)
(* The other utility classes follow the monitors, each with the runs of    *)
(* its own: SlightlyAdvancedStateMachine (SpecM), TestManager (SpecT),     *)
(* ActionRunLimiter (SpecA), TestLogicWithTimeout (SpecU), AveragingFilter *)
(* (SpecF) and DynamicArray (SpecD).                                       *)
(***************************************************************************)
EXTENDS Integers, Sequences, FiniteSets, TLC

VARIABLES
    variant,   \* which monitor class the run exercises: "deque" or "ring"
    now,       \* GetElapsedTimeMsec()
    am,        \* the VariableAnomalyMonitor object
    vm,        \* the VariableMonitor object
    obs,       \* the last call: operation, arguments, result
    fired,     \* per rule: Check*() returned true and no sample was accepted since
    streak,    \* per rule: timestamp of the first sample of the current unbroken
               \* run of violating accepted samples (NoTime when there is none)
    boot,      \* the value of the clock when the run starts
    threads,   \* the threads inside a call of the VariableAnomalyMonitor, and
               \* the owners of its two mutexes
    sm,        \* the SlightlyAdvancedStateMachine object (a SimpleStateMachine)
    tm,        \* the TestManager object
    limiter,   \* the ActionRunLimiter object
    filter,    \* the AveragingFilter object
    array,     \* the DynamicArray object
    call       \* the activation of TestLogicWithTimeout

\* The objects of the other utility classes
utilities == <<sm, tm, limiter, filter, array, call>>

vars == <<variant, now, am, vm, obs, fired, streak, boot, threads, utilities>>

\* An object the runs of a specification do not construct
Unbuilt == [class |-> "none"]

\* The runs of the monitors construct none of the other objects
NoUtilities ==
    /\ sm = Unbuilt
    /\ tm = Unbuilt
    /\ limiter = Unbuilt
    /\ filter = Unbuilt
    /\ array = Unbuilt
    /\ call = Unbuilt

-----------------------------------------------------------------------------
(* Bounds of the model *)

MaxTime == 3           \* the clock runs from 0 to MaxTime

MaxAnomalies == 3      \* a sample is fed only while the anomaly deques are shorter

NoTime == 0 - 1

Values == {40, 50, 60}

-----------------------------------------------------------------------------
(* uint32_t arithmetic.  TLC's integers are 32 bit signed, so the unsigned *)
(* 32 bit ring is modelled by a ring of 2^30 values; all timestamps and    *)
(* durations of the model are far below it.                                *)

UintModulus == 2 ^ 30

Sub32(a, b) == (a - b + UintModulus) % UintModulus

Add32(a, b) == (a + b) % UintModulus

Max(a, b) == IF a >= b THEN a ELSE b

Back(s) == s[Len(s)]

Front(s) == s[1]

-----------------------------------------------------------------------------
(* double arithmetic on fractions [n, d], d >= 0.  d = 0 is the result of  *)
(* dividing by zero: NaN when n = 0, +inf when n > 0, -inf when n < 0.     *)

Div(n, d) == [n |-> n, d |-> d]

fabs(x) == [n |-> IF x.n < 0 THEN 0 - x.n ELSE x.n, d |-> x.d]

IntAbs(i) == IF i < 0 THEN 0 - i ELSE i

\* x > lim for a double x and an integral limit; every comparison with NaN is
\* false.  A quotient with d > |n| lies strictly between -1 and 1, and is
\* compared without the product lim * d, which a d near 2^30 would overflow.
Greater(x, lim) ==
    IF x.d = 0 THEN x.n > 0
    ELSE IF x.d > IntAbs(x.n) /\ lim # 0 THEN lim < 0
    ELSE x.n > lim * x.d

\* x < lim
Less(x, lim) ==
    IF x.d = 0 THEN x.n < 0
    ELSE IF x.d > IntAbs(x.n) /\ lim # 0 THEN lim > 0
    ELSE x.n < lim * x.d

\* A reference parameter the call has not written
NoOut == Div(0, 0)

-----------------------------------------------------------------------------
(* VariableAnomalyMonitor<int> *)

MinTimeBetweenSamples == 1

\* The constructor
VariableAnomalyMonitor(minTimeBetweenSampleStoreMsec, thresholdArg, thresholdTimePeriodMsecArg, thresholdAnomalyDurationMsecArg, checkBelowThresholdArg, slopeLimitArg, slopeTimePeriodMsecArg, slopeAnomalyDurationMsecArg, checkBelowSlopeThresholdArg, useAbsoluteSlopeArg) ==
    [ values |-> << >>,
      minTimeBetweenUpdateSampleStoringMsec |->
          Max(minTimeBetweenSampleStoreMsec, MinTimeBetweenSamples),
      threshold |-> thresholdArg,
      checkBelowThreshold |-> checkBelowThresholdArg,
      thresholdTimePeriodMsec |-> thresholdTimePeriodMsecArg,
      thresholdAnomalyDurationMsec |-> thresholdAnomalyDurationMsecArg,
      lastThresholdAnomalyTimeMsec |-> 0,
      thresholdAnomalies |-> << >>,
      slopeLimit |-> slopeLimitArg,
      useAbsoluteSlope |-> useAbsoluteSlopeArg,
      checkBelowSlopeLim |-> checkBelowSlopeThresholdArg,
      slopeTimePeriodMsec |-> slopeTimePeriodMsecArg,
      slopeAnomalyDurationMsec |-> slopeAnomalyDurationMsecArg,
      lastSlopeAnomalyTimeMsec |-> 0,
      slopeAnomalies |-> << >> ]

\* CleanDeque for std::deque<std::pair<T, uint32_t>>
RECURSIVE CleanDequeValues(_, _, _)
CleanDequeValues(deque, currentTime, timeLimit) ==
    IF deque # << >> /\ Sub32(currentTime, Front(deque).second) > timeLimit
    THEN CleanDequeValues(Tail(deque), currentTime, timeLimit)
    ELSE deque

\* CleanDeque for std::deque<uint32_t>
RECURSIVE CleanDequeTimes(_, _, _)
CleanDequeTimes(deque, currentTime, timeLimit) ==
    IF deque # << >> /\ Sub32(currentTime, Front(deque)) > timeLimit
    THEN CleanDequeTimes(Tail(deque), currentTime, timeLimit)
    ELSE deque

\* Cleanup() without the pass over the sample store
CleanupRecordsOnly(m, currentTime) ==
    [m EXCEPT
       !.slopeAnomalies = CleanDequeTimes(m.slopeAnomalies, currentTime,
                      m.slopeAnomalyDurationMsec),
       !.thresholdAnomalies = CleanDequeTimes(m.thresholdAnomalies, currentTime,
                      m.thresholdAnomalyDurationMsec)]

\* Cleanup(), with currentTime the clock value it reads
Cleanup(m, currentTime) ==
    [m EXCEPT
       !.values = CleanDequeValues(m.values, currentTime,
                      Max(m.slopeTimePeriodMsec, m.thresholdTimePeriodMsec)),
       !.slopeAnomalies = CleanDequeTimes(m.slopeAnomalies, currentTime,
                      m.slopeAnomalyDurationMsec),
       !.thresholdAnomalies = CleanDequeTimes(m.thresholdAnomalies, currentTime,
                      m.thresholdAnomalyDurationMsec)]

\* A throttle test that lets every update through
AMNeverTooFrequent(m, currentTime) == FALSE

\* UpdateValue: the throttle test
AMTooFrequent(m, currentTime) ==
    /\ m.values # << >>
    /\ Sub32(currentTime, Back(m.values).second) < m.minTimeBetweenUpdateSampleStoringMsec

\* A store that always takes the push_back branch
AMStoreAlwaysPush(m, newValue, currentTime) ==
    Append(m.values, [first |-> newValue, second |-> currentTime])

\* UpdateValue: storing the sample (overwrite on an equal timestamp, else push_back)
AMStore(m, newValue, currentTime) ==
    IF m.values # << >> /\ Back(m.values).second = currentTime
    THEN [m.values EXCEPT ![Len(m.values)].first = newValue]
    ELSE Append(m.values, [first |-> newValue, second |-> currentTime])

\* UpdateValue: calculatedSlope over the deque after the store
AMCalculatedSlope(vals) ==
    Div(Back(vals).first - Front(vals).first,
        Sub32(Back(vals).second, Front(vals).second))

\* UpdateValue: the slope anomaly test
AMSlopeAnomaly(m, calculatedSlope) ==
    IF m.useAbsoluteSlope
    THEN Greater(fabs(calculatedSlope), IntAbs(m.slopeLimit)) = ~m.checkBelowSlopeLim
    ELSE Greater(calculatedSlope, m.slopeLimit) = ~m.checkBelowSlopeLim

\* A threshold test that also takes a value equal to the threshold
AMThresholdAnomalyInclusive(m, newValue) ==
    IF m.checkBelowThreshold THEN newValue <= m.threshold ELSE newValue >= m.threshold

\* UpdateValue: the threshold anomaly test
AMThresholdAnomaly(m, newValue) ==
    IF m.checkBelowThreshold THEN newValue < m.threshold ELSE newValue > m.threshold

\* UpdateValue on an accepted sample, up to the call of Cleanup()
AMClassify(m, newValue, currentTime) ==
    LET vals == AMStore(m, newValue, currentTime)
        slopeHit == AMSlopeAnomaly(m, AMCalculatedSlope(vals))
        threshHit == AMThresholdAnomaly(m, newValue)
    IN [m EXCEPT
          !.values = vals,
          !.slopeAnomalies = IF slopeHit THEN Append(@, currentTime) ELSE << >>,
          !.lastSlopeAnomalyTimeMsec = IF slopeHit THEN currentTime ELSE @,
          !.thresholdAnomalies = IF threshHit THEN Append(@, currentTime) ELSE << >>,
          !.lastThresholdAnomalyTimeMsec = IF threshHit THEN currentTime ELSE @]

\* CheckAnomalyDuration
CheckAnomalyDuration(anomaliesDeque, anomalyDuration, currentTime) ==
    anomaliesDeque # << >> /\ Sub32(currentTime, Front(anomaliesDeque)) >= anomalyDuration

\* A CheckThreshold() that reports without clearing the record
CheckThresholdLevel(m, currentTime) ==
    [ret |-> CheckAnomalyDuration(m.thresholdAnomalies, m.thresholdAnomalyDurationMsec,
                                  currentTime),
     m |-> m]

\* CheckThreshold() at time currentTime: the value returned and the monitor left
CheckThreshold(m, currentTime) ==
    IF CheckAnomalyDuration(m.thresholdAnomalies, m.thresholdAnomalyDurationMsec,
                            currentTime)
    THEN [ret |-> TRUE, m |-> [m EXCEPT !.thresholdAnomalies = << >>]]
    ELSE [ret |-> FALSE, m |-> m]

\* CheckSlope() at time currentTime
CheckSlope(m, currentTime) ==
    IF CheckAnomalyDuration(m.slopeAnomalies, m.slopeAnomalyDurationMsec, currentTime)
    THEN [ret |-> TRUE, m |-> [m EXCEPT !.slopeAnomalies = << >>]]
    ELSE [ret |-> FALSE, m |-> m]

\* The samples a query's loop visits: it walks from the newest sample back and
\* stops at the first one older than startTime.  Positions in the deque.
AMVisited(vals, startTime) ==
    {i \in 1 .. Len(vals) : \A j \in i .. Len(vals) : vals[j].second >= startTime}

\* CheckIfValueConsistently, with currentTime the clock value it reads
AMCheckIfValueConsistently(m, checkBelow, thresholdValue, durationMsec, useCurrentTime, minDataPoints, currentTime) ==
    IF m.values = << >> THEN FALSE
    ELSE LET endTime == IF useCurrentTime THEN currentTime ELSE Back(m.values).second
             startTime == Sub32(endTime, durationMsec)
             visited == AMVisited(m.values, startTime)
         IN IF Sub32(Back(m.values).second, Front(m.values).second) < durationMsec
            THEN FALSE
            ELSE IF \E i \in visited :
                       IF checkBelow THEN m.values[i].first >= thresholdValue
                       ELSE m.values[i].first <= thresholdValue
            THEN FALSE
            ELSE IF Cardinality(visited) < minDataPoints THEN FALSE
            ELSE visited # {}

\* CheckIfValueBetweenBoundConsistently
AMCheckIfValueBetweenBoundConsistently(m, lowerThresholdValue, upperThresholdValue, durationMsec, useCurrentTime, minDataPoints, currentTime) ==
    IF m.values = << >> THEN FALSE
    ELSE LET endTime == IF useCurrentTime THEN currentTime ELSE Back(m.values).second
             startTime == Sub32(endTime, durationMsec)
             visited == AMVisited(m.values, startTime)
         IN IF Sub32(Back(m.values).second, Front(m.values).second) < durationMsec
            THEN FALSE
            ELSE IF \E i \in visited :
                       \/ m.values[i].first <= lowerThresholdValue
                       \/ m.values[i].first >= upperThresholdValue
            THEN FALSE
            ELSE IF Cardinality(visited) < minDataPoints THEN FALSE
            ELSE visited # {}

\* CheckIfValueOutOfBoundConsistently
AMCheckIfValueOutOfBoundConsistently(m, lowerThresholdValue, upperThresholdValue, durationMsec, useCurrentTime, minDataPoints, currentTime) ==
    IF m.values = << >> THEN FALSE
    ELSE LET endTime == IF useCurrentTime THEN currentTime ELSE Back(m.values).second
             startTime == Sub32(endTime, durationMsec)
             visited == AMVisited(m.values, startTime)
         IN IF Sub32(Back(m.values).second, Front(m.values).second) < durationMsec
            THEN FALSE
            ELSE IF \E i \in visited :
                       /\ m.values[i].first >= lowerThresholdValue
                       /\ m.values[i].first <= upperThresholdValue
            THEN FALSE
            ELSE IF Cardinality(visited) < minDataPoints THEN FALSE
            ELSE visited # {}

-----------------------------------------------------------------------------
(* RingBuffer<Type, BufferSize>: buffer is indexed 0 .. BufferSize-1 *)

EndIndex == 65535

Uint16Modulus == 65536

\* The constructor; init is the value-initialised element
RingBuffer(BufferSize, init) ==
    [ BufferSize |-> BufferSize,
      buffer |-> [i \in 0 .. BufferSize - 1 |-> init],
      head |-> 0, tail |-> 0, full |-> FALSE ]

GetCount(rb) ==
    IF rb.full THEN rb.BufferSize
    ELSE IF rb.head >= rb.tail THEN rb.head - rb.tail
    ELSE (rb.BufferSize + rb.head - rb.tail) % Uint16Modulus

\* Advance(entry)
Advance(rb, entry) == (entry + 1) % rb.BufferSize

RingAppend(rb, value) ==
    LET newTail == IF rb.full THEN Advance(rb, rb.tail) ELSE rb.tail
        newHead == Advance(rb, rb.head)
    IN [rb EXCEPT !.buffer[rb.head] = value,
                  !.tail = newTail,
                  !.head = newHead,
                  !.full = (newHead = newTail)]

RingErase(rb) == [rb EXCEPT !.head = 0, !.tail = 0, !.full = FALSE]

RingNext(rb, currentIndex) ==
    LET computedIndex == ((currentIndex + 1) % Uint16Modulus) % rb.BufferSize
    IN IF computedIndex = rb.head THEN EndIndex ELSE computedIndex

Previous(rb, currentIndex) ==
    LET computedIndex == IF currentIndex = 0 THEN rb.BufferSize - 1 ELSE currentIndex - 1
    IN IF rb.full
       THEN IF computedIndex = rb.tail THEN EndIndex ELSE computedIndex
       ELSE IF computedIndex = rb.BufferSize - 1 THEN EndIndex ELSE computedIndex

begin(rb) == IF GetCount(rb) > 0 THEN rb.tail ELSE EndIndex

rbegin(rb) == IF GetCount(rb) > 0 THEN Previous(rb, rb.head) ELSE EndIndex

\* The elements a loop visits that starts at index and steps by ++ (Next) or
\* by -- (Previous) until it meets the end iterator
RECURSIVE Visited(_, _, _)
Visited(rb, index, increment) ==
    IF index = EndIndex THEN << >>
    ELSE <<rb.buffer[index]>>
           \o Visited(rb, IF increment THEN RingNext(rb, index) ELSE Previous(rb, index),
                      increment)

\* The elements the buffer holds, oldest first (tail up to head)
RECURSIVE StoredFrom(_, _, _)
StoredFrom(rb, index, count) ==
    IF count = 0 THEN << >>
    ELSE <<rb.buffer[index]>> \o StoredFrom(rb, (index + 1) % rb.BufferSize, count - 1)

Stored(rb) == StoredFrom(rb, rb.tail, GetCount(rb))

-----------------------------------------------------------------------------
(* VariableMonitor<int, MinTimeBetweenSamplesMsec, SampleWindowMsec,       *)
(*                 ThresholdWindowMsec, SlopeWindowMsec>                   *)
(* The template arguments are the fields of vm.tp.                        *)

ValueCount(tp) == (tp.SampleWindowMsec \div tp.MinTimeBetweenSamplesMsec) + 1

ThresholdAnomalyCount(tp) ==
    IF tp.ThresholdWindowMsec > 0
    THEN (tp.ThresholdWindowMsec \div tp.MinTimeBetweenSamplesMsec) + 1 ELSE 0

SlopeAnomalyCount(tp) ==
    IF tp.SlopeWindowMsec > 0
    THEN (tp.SlopeWindowMsec \div tp.MinTimeBetweenSamplesMsec) + 1 ELSE 0

\* TimestampedVariable<int>(value), built at time currentTime
TimestampedVariable(value, currentTime) == [value |-> value, timestamp |-> currentTime]

\* The constructor, run at time currentTime
VariableMonitor(tp, thresholdArg, thresholdAnomalyTypeArg, slopeLimitArg, slopeAnomalyTypeArg, slopeTypeArg, currentTime) ==
    [ tp |-> tp,
      values |-> RingBuffer(ValueCount(tp), TimestampedVariable(0, currentTime)),
      threshold |-> thresholdArg,
      thresholdAnomalyType |-> thresholdAnomalyTypeArg,
      thresholdAnomalies |-> RingBuffer(ThresholdAnomalyCount(tp), 0),
      slopeLimit |-> slopeLimitArg,
      slopeAnomalyType |-> slopeAnomalyTypeArg,
      slopeType |-> slopeTypeArg,
      slopeAnomalies |-> RingBuffer(SlopeAnomalyCount(tp), 0) ]

\* IsSlopeAnomaly (VariableMonitor.cpp)
IsSlopeAnomaly(deltaValue, deltaTimeMsec, slopeLimit, slopeType, slopeAnomalyType) ==
    IF deltaTimeMsec >= 0
    THEN IF slopeType = "Absolute"
         THEN IF slopeAnomalyType = "AboveLimit"
              THEN Greater(fabs(Div(deltaValue, deltaTimeMsec)), IntAbs(slopeLimit))
              ELSE Less(fabs(Div(deltaValue, deltaTimeMsec)), IntAbs(slopeLimit))
         ELSE IF slopeAnomalyType = "AboveLimit"
              THEN Greater(Div(deltaValue, deltaTimeMsec), slopeLimit)
              ELSE Less(Div(deltaValue, deltaTimeMsec), slopeLimit)
    ELSE FALSE

\* GetOldestEntry: the loop, from the iterator pair (valueIterator, priorValueIterator)
RECURSIVE OldestLoop(_, _, _, _)
OldestLoop(rb, valueIterator, priorValueIterator, oldestTimestampMsec) ==
    IF priorValueIterator # EndIndex
       /\ rb.buffer[priorValueIterator].timestamp >= oldestTimestampMsec
    THEN OldestLoop(rb, priorValueIterator, Previous(rb, priorValueIterator),
                    oldestTimestampMsec)
    ELSE valueIterator

GetOldestEntry(rb, oldestTimestampMsec) ==
    IF rbegin(rb) # EndIndex
    THEN OldestLoop(rb, rbegin(rb), Previous(rb, rbegin(rb)), oldestTimestampMsec)
    ELSE rbegin(rb)

\* GetNewestEntry: the loop
RECURSIVE NewestLoop(_, _, _, _)
NewestLoop(rb, valueIterator, priorValueIterator, newestTimestampMsec) ==
    IF priorValueIterator # EndIndex
       /\ rb.buffer[priorValueIterator].timestamp > newestTimestampMsec
    THEN NewestLoop(rb, priorValueIterator, Previous(rb, priorValueIterator),
                    newestTimestampMsec)
    ELSE valueIterator

GetNewestEntry(rb, newestTimestampMsec) ==
    IF rbegin(rb) # EndIndex
    THEN NewestLoop(rb, rbegin(rb), Previous(rb, rbegin(rb)), newestTimestampMsec)
    ELSE rbegin(rb)

\* UpdateValue: the sample is refused (the store is seen non-empty and the
\* sample comes before minimumAddTimeMsec)
VMTooFrequent(m, currentTime) ==
    /\ rbegin(m.values) # EndIndex
    /\ currentTime < Add32(m.values.buffer[rbegin(m.values)].timestamp,
                           m.tp.MinTimeBetweenSamplesMsec)

\* UpdateValue: the slope part, on the store after the Append.  evaluated says
\* whether IsSlopeAnomaly was called at all.
VMSlopeCheck(m, vals, newValue, currentTime) ==
    IF rbegin(m.values) # EndIndex /\ m.tp.SlopeWindowMsec > 0
    THEN LET oldestTimestamp == IF currentTime >= m.tp.SlopeWindowMsec
                                THEN currentTime - m.tp.SlopeWindowMsec ELSE 0
             startingValueIterator == GetOldestEntry(vals, oldestTimestamp)
             deltaTimeMsec == Sub32(currentTime,
                                    vals.buffer[startingValueIterator].timestamp)
             deltaValue == newValue - vals.buffer[startingValueIterator].value
         IN IF deltaTimeMsec >= Max(m.tp.SlopeWindowMsec, 0)
            THEN [evaluated |-> TRUE, deltaTimeMsec |-> deltaTimeMsec,
                  anomaly |-> IsSlopeAnomaly(deltaValue, deltaTimeMsec, m.slopeLimit,
                                             m.slopeType, m.slopeAnomalyType)]
            ELSE [evaluated |-> FALSE, deltaTimeMsec |-> deltaTimeMsec, anomaly |-> FALSE]
    ELSE [evaluated |-> FALSE, deltaTimeMsec |-> NoTime, anomaly |-> FALSE]

\* UpdateValue: the threshold test
VMThresholdAnomaly(m, newValue) ==
    IF m.thresholdAnomalyType = "AboveLimit"
    THEN newValue > m.threshold
    ELSE newValue < m.threshold

\* UpdateValue on an accepted sample
VMClassify(m, newValue, currentTime) ==
    LET vals == RingAppend(m.values, TimestampedVariable(newValue, currentTime))
        slope == VMSlopeCheck(m, vals, newValue, currentTime)
        threshHit == VMThresholdAnomaly(m, newValue)
    IN [m EXCEPT
          !.values = vals,
          !.slopeAnomalies = IF ~slope.evaluated THEN @
                             ELSE IF slope.anomaly THEN RingAppend(@, currentTime)
                             ELSE RingErase(@),
          !.thresholdAnomalies = IF m.tp.ThresholdWindowMsec = 0 THEN @
                                 ELSE IF threshHit THEN RingAppend(@, currentTime)
                                 ELSE RingErase(@)]

\* Erase()
VMErase(m) ==
    [m EXCEPT !.values = RingErase(@), !.thresholdAnomalies = RingErase(@),
              !.slopeAnomalies = RingErase(@)]

\* The iterators a query's for loop passes through, from valueIterator up to
\* endIterator by ++; the walk is cut at the end iterator, which the loop body
\* would dereference
RECURSIVE VMPath(_, _, _)
VMPath(rb, valueIterator, endIterator) ==
    IF valueIterator = endIterator THEN << >>
    ELSE IF valueIterator = EndIndex THEN <<EndIndex>>
    ELSE <<valueIterator>> \o VMPath(rb, RingNext(rb, valueIterator), endIterator)

\* What the loop and the count test after it give: failing is the set of the
\* positions of path whose sample makes the loop return false.  oob tells that
\* the loop read through the end iterator, and then nothing is known of ret.
VMOutcome(path, failing, minDataPoints) ==
    LET stops == {i \in 1 .. Len(path) : path[i] = EndIndex \/ i \in failing}
        first == CHOOSE i \in stops : \A j \in stops : i <= j
    IN IF stops = {} THEN [ret |-> Len(path) >= minDataPoints, oob |-> FALSE]
       ELSE IF path[first] = EndIndex THEN [ret |-> FALSE, oob |-> TRUE]
       ELSE [ret |-> FALSE, oob |-> FALSE]

\* CheckIfValueConsistently, with endTimeMsec the value it takes for the end
\* of the window: the clock value, or what it reads through values.rend()
VMCheckIfValueConsistently(m, checkBelow, thresholdValue, durationMsec, minDataPoints, endTimeMsec) ==
    IF GetCount(m.values) = 0 THEN [ret |-> FALSE, oob |-> FALSE]
    ELSE LET endIterator == GetNewestEntry(m.values, endTimeMsec)
             startTimeMsec == Sub32(endTimeMsec, durationMsec)
             path == VMPath(m.values, GetOldestEntry(m.values, startTimeMsec),
                            endIterator)
             failing == {i \in 1 .. Len(path) :
                           /\ path[i] # EndIndex
                           /\ \/ checkBelow
                                   /\ m.values.buffer[path[i]].value >= thresholdValue
                              \/ m.values.buffer[path[i]].value <= thresholdValue}
         IN IF endIterator = EndIndex THEN [ret |-> FALSE, oob |-> FALSE]
            ELSE VMOutcome(path, failing, minDataPoints)

\* CheckIfValueBetweenBoundConsistently
VMCheckIfValueBetweenBoundConsistently(m, lowerThresholdValue, upperThresholdValue, durationMsec, minDataPoints, endTimeMsec) ==
    IF GetCount(m.values) = 0 THEN [ret |-> FALSE, oob |-> FALSE]
    ELSE LET endIterator == GetNewestEntry(m.values, endTimeMsec)
             startTimeMsec == Sub32(endTimeMsec, durationMsec)
             path == VMPath(m.values, GetOldestEntry(m.values, startTimeMsec),
                            endIterator)
             failing == {i \in 1 .. Len(path) :
                           /\ path[i] # EndIndex
                           /\ \/ m.values.buffer[path[i]].value <= lowerThresholdValue
                              \/ m.values.buffer[path[i]].value >= upperThresholdValue}
         IN IF endIterator = EndIndex THEN [ret |-> FALSE, oob |-> FALSE]
            ELSE VMOutcome(path, failing, minDataPoints)

\* CheckIfValueOutOfBoundConsistently
VMCheckIfValueOutOfBoundConsistently(m, lowerThresholdValue, upperThresholdValue, durationMsec, minDataPoints, endTimeMsec) ==
    IF GetCount(m.values) = 0 THEN [ret |-> FALSE, oob |-> FALSE]
    ELSE LET endIterator == GetNewestEntry(m.values, endTimeMsec)
             startTimeMsec == Sub32(endTimeMsec, durationMsec)
             path == VMPath(m.values, GetOldestEntry(m.values, startTimeMsec),
                            endIterator)
             failing == {i \in 1 .. Len(path) :
                           /\ path[i] # EndIndex
                           /\ \/ m.values.buffer[path[i]].value > lowerThresholdValue
                              \/ m.values.buffer[path[i]].value < upperThresholdValue}
         IN IF endIterator = EndIndex THEN [ret |-> FALSE, oob |-> FALSE]
            ELSE VMOutcome(path, failing, minDataPoints)

-----------------------------------------------------------------------------
(* The slope and average queries.  Each gives the value returned and the    *)
(* value written to the reference parameter.                               *)

\* GetSimpleSlopeOverDeltaTime of the VariableAnomalyMonitor
AMGetSimpleSlopeOverDeltaTime(m, deltaTimeMsec, useCurrentTime, currentTime) ==
    IF m.values = << >> THEN [ret |-> FALSE, out |-> NoOut]
    ELSE LET endTime == IF useCurrentTime THEN currentTime ELSE Back(m.values).second
             startTime == Sub32(endTime, deltaTimeMsec)
             reached == {i \in 1 .. Len(m.values) : m.values[i].second >= startTime}
             oldest == CHOOSE i \in reached : \A j \in reached : i <= j
         IN IF reached = {} THEN [ret |-> FALSE, out |-> NoOut]
            ELSE IF m.values[oldest].second = endTime THEN [ret |-> FALSE, out |-> NoOut]
            ELSE [ret |-> TRUE,
                  out |-> Div(Back(m.values).first - m.values[oldest].first,
                              Sub32(endTime, m.values[oldest].second))]

\* GetSimpleSlopeOverDeltaTime of the VariableMonitor, with endTimeMsec the
\* value it takes for the end of the range: the clock value, or what it reads
\* through values.end()
VMGetSimpleSlopeOverDeltaTime(m, deltaTimeMsec, endTimeMsec) ==
    IF GetCount(m.values) = 0 THEN [ret |-> FALSE, out |-> NoOut]
    ELSE LET endIterator == GetNewestEntry(m.values, endTimeMsec)
             startIterator == GetOldestEntry(m.values, Sub32(endTimeMsec, deltaTimeMsec))
         IN IF endIterator = EndIndex \/ startIterator = EndIndex
            THEN [ret |-> FALSE, out |-> NoOut]
            ELSE IF m.values.buffer[startIterator].timestamp
                       = m.values.buffer[endIterator].timestamp
            THEN [ret |-> FALSE, out |-> NoOut]
            ELSE [ret |-> TRUE,
                  out |-> Div(m.values.buffer[endIterator].value
                                 - m.values.buffer[startIterator].value,
                              Sub32(m.values.buffer[endIterator].timestamp,
                                    m.values.buffer[startIterator].timestamp))]

\* The sum of the values at the positions idx of the deque vals
RECURSIVE AMSum(_, _)
AMSum(vals, idx) ==
    IF idx = {} THEN 0
    ELSE LET i == CHOOSE k \in idx : TRUE
         IN vals[i].first + AMSum(vals, idx \ {i})

\* GetAverageValue of the VariableAnomalyMonitor<int>.  zero tells that the
\* call divided by countDataPointsInTimeSpan = 0.
AMGetAverageValue(m, durationMsec, useCurrentTime, minDataPoints, currentTime) ==
    IF m.values = << >> THEN [ret |-> FALSE, out |-> NoOut, zero |-> FALSE]
    ELSE LET endTime == IF useCurrentTime THEN currentTime ELSE Back(m.values).second
             startTime == Sub32(endTime, durationMsec)
             visited == AMVisited(m.values, startTime)
             countDataPointsInTimeSpan == Cardinality(visited)
         IN IF Sub32(Back(m.values).second, Front(m.values).second) < durationMsec
            THEN [ret |-> FALSE, out |-> NoOut, zero |-> FALSE]
            ELSE IF countDataPointsInTimeSpan < minDataPoints
            THEN [ret |-> FALSE, out |-> NoOut, zero |-> FALSE]
            ELSE IF countDataPointsInTimeSpan = 0
            THEN [ret |-> FALSE, out |-> NoOut, zero |-> TRUE]
            ELSE [ret |-> TRUE,
                  out |-> Div(AMSum(m.values, visited) \div countDataPointsInTimeSpan, 1),
                  zero |-> FALSE]

\* The sum of the values at the iterators of path
RECURSIVE VMSum(_, _)
VMSum(rb, path) ==
    IF path = << >> THEN 0
    ELSE (IF Head(path) = EndIndex THEN 0 ELSE rb.buffer[Head(path)].value)
         + VMSum(rb, Tail(path))

\* GetAverageValue of the VariableMonitor<int, ...>, with endTimeMsec the value
\* it takes for the end of the window.  oob tells that the do-while loop read
\* through the end iterator.
VMGetAverageValue(m, durationMsec, minDataPoints, endTimeMsec) ==
    IF GetCount(m.values) = 0 \/ minDataPoints = 0
    THEN [ret |-> FALSE, out |-> NoOut, oob |-> FALSE]
    ELSE LET endIterator == GetNewestEntry(m.values, endTimeMsec)
             startTimeMsec == IF endTimeMsec > durationMsec
                              THEN endTimeMsec - durationMsec ELSE 0
             valueIterator == GetOldestEntry(m.values, startTimeMsec)
             path == VMPath(m.values, valueIterator, endIterator) \o <<endIterator>>
             countDataPointsInTimeSpan == Len(path)
         IN IF endIterator = EndIndex THEN [ret |-> FALSE, out |-> NoOut, oob |-> FALSE]
            ELSE IF countDataPointsInTimeSpan >= minDataPoints
            THEN [ret |-> TRUE,
                  out |-> Div(VMSum(m.values, path) \div countDataPointsInTimeSpan, 1),
                  oob |-> \E i \in 1 .. Len(path) : path[i] = EndIndex]
            ELSE [ret |-> FALSE, out |-> NoOut,
                  oob |-> \E i \in 1 .. Len(path) : path[i] = EndIndex]

-----------------------------------------------------------------------------
(* The remaining queries, and the calls that empty the monitor *)

\* GetLastValue() of the VariableAnomalyMonitor<int>; T() is 0
AMGetLastValue(m) == IF m.values # << >> THEN Back(m.values).first ELSE 0

\* GetMaxValue / GetMinValue of the VariableAnomalyMonitor: the loop over the deque
RECURSIVE AMExtreme(_, _, _)
AMExtreme(vals, value, wantMax) ==
    IF vals = << >> THEN value
    ELSE AMExtreme(Tail(vals),
                   IF (wantMax /\ value < Head(vals).first)
                         \/ (~wantMax /\ value > Head(vals).first)
                   THEN Head(vals).first ELSE value,
                   wantMax)

AMGetMaxValue(m) ==
    IF m.values # << >>
    THEN [ret |-> TRUE, out |-> Div(AMExtreme(Tail(m.values), Front(m.values).first, TRUE), 1)]
    ELSE [ret |-> FALSE, out |-> NoOut]

AMGetMinValue(m) ==
    IF m.values # << >>
    THEN [ret |-> TRUE, out |-> Div(AMExtreme(Tail(m.values), Front(m.values).first, FALSE), 1)]
    ELSE [ret |-> FALSE, out |-> NoOut]

\* GetAverageSchemeValue: only AveragingScheme::MEAN computes anything
AMGetAverageSchemeValue(m, scheme, durationMsec, useCurrentTime, minDataPoints, currentTime) ==
    IF scheme = "MEAN"
    THEN AMGetAverageValue(m, durationMsec, useCurrentTime, minDataPoints, currentTime)
    ELSE [ret |-> FALSE, out |-> NoOut, zero |-> FALSE]

\* GetAdvancedSlopeOverDeltaTime of the VariableAnomalyMonitor with calcType
\* SlopeCalculationType::LAST.  it is the position the backward search stops
\* at; the slopes vector is not empty when more than windowSize samples follow
\* it, and its last element compares the last two windows of windowSize samples.
AMGetAdvancedSlopeOverDeltaTime(m, deltaTimeMsec, windowSize, currentTime) ==
    IF m.values = << >> \/ windowSize < 2 THEN [ret |-> FALSE, out |-> NoOut]
    ELSE LET startTime == Sub32(currentTime, deltaTimeMsec)
             n == Len(m.values)
             atOrBefore == {i \in 1 .. n : m.values[i].second <= startTime}
             it == IF atOrBefore = {} THEN 1
                   ELSE CHOOSE i \in atOrBefore : \A j \in atOrBefore : i >= j
         IN IF (it = 1 /\ m.values[1].second > startTime) \/ n - it + 1 < windowSize
            THEN [ret |-> FALSE, out |-> NoOut]
            ELSE IF n - it + 1 = windowSize THEN [ret |-> FALSE, out |-> NoOut]
            ELSE [ret |-> TRUE,
                  out |-> Div(m.values[n].first - m.values[n - windowSize].first,
                              windowSize * Sub32(m.values[n].second,
                                                 m.values[n - windowSize + 1].second))]

\* CleanupAll(), with currentTime the clock value it reads
CleanupAll(m, currentTime) ==
    [m EXCEPT !.values = CleanDequeValues(m.values, currentTime, 0),
              !.slopeAnomalies = CleanDequeTimes(m.slopeAnomalies, currentTime, 0),
              !.thresholdAnomalies = CleanDequeTimes(m.thresholdAnomalies, currentTime, 0)]

\* oldestTimeMsec of GetLastValue, GetMaxValue and GetMinValue of the VariableMonitor
VMOldestTimeMsec(m, currentTimeMsec) ==
    IF currentTimeMsec > m.tp.SampleWindowMsec
    THEN currentTimeMsec - m.tp.SampleWindowMsec ELSE 0

\* GetLastValue(timestamp) of the VariableMonitor<int, ...>; Type{} is 0
VMGetLastValue(m, currentTimeMsec) ==
    IF rbegin(m.values) # EndIndex
       /\ m.values.buffer[rbegin(m.values)].timestamp >= VMOldestTimeMsec(m, currentTimeMsec)
    THEN m.values.buffer[rbegin(m.values)].value
    ELSE 0

\* GetMaxValue / GetMinValue of the VariableMonitor: the while loop, entered
\* with the iterator already decremented
RECURSIVE VMExtreme(_, _, _, _, _)
VMExtreme(rb, valueIterator, value, oldestTimeMsec, wantMax) ==
    IF valueIterator # EndIndex /\ rb.buffer[valueIterator].timestamp >= oldestTimeMsec
    THEN VMExtreme(rb, Previous(rb, valueIterator),
                   IF wantMax THEN Max(value, rb.buffer[valueIterator].value)
                   ELSE IF value <= rb.buffer[valueIterator].value THEN value
                   ELSE rb.buffer[valueIterator].value,
                   oldestTimeMsec, wantMax)
    ELSE value

VMGetExtremeValue(m, currentTimeMsec, wantMax) ==
    IF rbegin(m.values) # EndIndex
       /\ m.values.buffer[rbegin(m.values)].timestamp >= VMOldestTimeMsec(m, currentTimeMsec)
    THEN [ret |-> TRUE,
          out |-> Div(VMExtreme(m.values, Previous(m.values, rbegin(m.values)),
                                m.values.buffer[rbegin(m.values)].value,
                                VMOldestTimeMsec(m, currentTimeMsec), wantMax), 1)]
    ELSE [ret |-> FALSE, out |-> NoOut]

VMGetMaxValue(m, currentTimeMsec) == VMGetExtremeValue(m, currentTimeMsec, TRUE)

VMGetMinValue(m, currentTimeMsec) == VMGetExtremeValue(m, currentTimeMsec, FALSE)

\* GetAverageSchemeValue of the VariableMonitor
VMGetAverageSchemeValue(m, scheme, durationMsec, minDataPoints, endTimeMsec) ==
    IF scheme = "MEAN" THEN VMGetAverageValue(m, durationMsec, minDataPoints, endTimeMsec)
    ELSE [ret |-> FALSE, out |-> NoOut, oob |-> FALSE]

\* GetAdvancedSlopeOverDeltaTime of the VariableMonitor: the body is commented out
VMGetAdvancedSlopeOverDeltaTime(m, deltaTimeMsec, windowSize) == FALSE

\* The loop of the count getters: it walks from iterator, by -- or by ++, and
\* counts until an entry older than oldestTimeMsec or the end is met.  times
\* gives the timestamp of the entry at an index.
RECURSIVE VMCountLoop(_, _, _, _, _)
VMCountLoop(rb, times, iterator, oldestTimeMsec, increment) ==
    IF iterator = EndIndex THEN 0
    ELSE IF times[iterator] >= oldestTimeMsec
    THEN 1 + VMCountLoop(rb, times,
                 IF increment THEN RingNext(rb, iterator) ELSE Previous(rb, iterator),
                 oldestTimeMsec, increment)
    ELSE 0

\* GetValueCount(), with currentTimeMsec the clock value it reads
VMGetValueCount(m, currentTimeMsec) ==
    LET oldestTimeMsec == IF currentTimeMsec > m.tp.SampleWindowMsec
                          THEN Sub32(currentTimeMsec, m.tp.SampleWindowMsec) ELSE 0
    IN VMCountLoop(m.values, [i \in DOMAIN m.values.buffer |-> m.values.buffer[i].timestamp],
                   rbegin(m.values), oldestTimeMsec, FALSE)

\* GetThresholdAnomalyCount()
VMGetThresholdAnomalyCount(m, currentTimeMsec) ==
    LET oldestTimeMsec == IF currentTimeMsec > m.tp.ThresholdWindowMsec
                          THEN Sub32(currentTimeMsec, m.tp.ThresholdWindowMsec) ELSE 0
    IN VMCountLoop(m.thresholdAnomalies, m.thresholdAnomalies.buffer,
                   rbegin(m.thresholdAnomalies), oldestTimeMsec, FALSE)

\* GetSlopeAnomalyCount(): the window starts one millisecond later and the
\* loop steps by ++
VMGetSlopeAnomalyCount(m, currentTimeMsec) ==
    LET oldestTimeMsec == IF currentTimeMsec > m.tp.SlopeWindowMsec
                          THEN Add32(Sub32(currentTimeMsec, m.tp.SlopeWindowMsec), 1)
                          ELSE 0
    IN VMCountLoop(m.slopeAnomalies, m.slopeAnomalies.buffer,
                   rbegin(m.slopeAnomalies), oldestTimeMsec, TRUE)

-----------------------------------------------------------------------------
(* The monitors the runs are made with.  Values are around the threshold  *)
(* 50; the slope limit is 10 per millisecond.                             *)

AMConfigs ==
    { VariableAnomalyMonitor(1, 50, 3, 2, FALSE, 10, 2, 2, FALSE, FALSE),
      VariableAnomalyMonitor(2, 50, 3, 1, TRUE, 10, 3, 1, TRUE, TRUE),
      VariableAnomalyMonitor(0, 50, 1, 0, FALSE, 10, 2, 0, TRUE, FALSE),
      VariableAnomalyMonitor(1, 50, 3, 3, TRUE, 0 - 10, 1, 3, FALSE, TRUE) }

TemplateArgs(minTime, sampleWindow, thresholdWindow, slopeWindow) ==
    [ MinTimeBetweenSamplesMsec |-> minTime, SampleWindowMsec |-> sampleWindow,
      ThresholdWindowMsec |-> thresholdWindow, SlopeWindowMsec |-> slopeWindow ]

VMConfigs ==
    { VariableMonitor(TemplateArgs(1, 2, 2, 2), 50, "AboveLimit", 10, "AboveLimit",
                      "Directional", 0),
      VariableMonitor(TemplateArgs(2, 1, 0, 0), 50, "BelowLimit", 10, "AboveLimit",
                      "Absolute", 0),
      VariableMonitor(TemplateArgs(1, 3, 1, 1), 50, "BelowLimit", 10, "BelowLimit",
                      "Absolute", 0),
      VariableMonitor(TemplateArgs(2, 4, 4, 2), 50, "AboveLimit", 0 - 10, "AboveLimit",
                      "Absolute", 0) }

MinTimeChoices == {0}

-----------------------------------------------------------------------------
(* The record of the last call *)

\* faults: "zeroDiv" when the call divided by a zero time delta, "oob" when it
\* read the buffer through the end iterator
\* out is the value the call wrote through its reference parameter (a slope,
\* or an average as a fraction over 1); NoOut when it wrote none
ObsOut(op, ret, out, args, t, faults) ==
    [op |-> op, ret |-> ret, out |-> out, args |-> args, t |-> t, faults |-> faults]

Obs(op, ret, args, t, faults) == ObsOut(op, ret, NoOut, args, t, faults)

ZeroDiv(cond) == IF cond THEN {"zeroDiv"} ELSE {}

NoStreak == [thr |-> NoTime, slp |-> NoTime]

NotFired == [thr |-> FALSE, slp |-> FALSE]

\* The first sample of the run of violating samples, after one more sample
Extend(start, hit, t) == IF ~hit THEN NoTime ELSE IF start = NoTime THEN t ELSE start

\* The threads that call the VariableAnomalyMonitor concurrently
Threads == {1, 2}

\* No thread is inside a call and both mutexes are free (owner 0)
NoThreads ==
    [ pc |-> [t \in Threads |-> "idle"],
      newValue |-> [t \in Threads |-> 0],
      currentTime |-> [t \in Threads |-> 0],
      args |-> [t \in Threads |-> << >>],
      mutex |-> 0,
      configMutex |-> 0 ]

\* Milliseconds since the run started
Elapsed(t) == Sub32(t, boot)

Init ==
    /\ variant \in {"deque", "ring"}
    /\ now = 0
    /\ am \in AMConfigs
    /\ vm \in VMConfigs
    /\ variant = "deque" => vm = VariableMonitor(TemplateArgs(1, 2, 2, 2), 50,
                                  "AboveLimit", 10, "AboveLimit", "Directional", 0)
    /\ variant = "ring" => am = VariableAnomalyMonitor(1, 50, 3, 2, FALSE, 10, 2, 2,
                                  FALSE, FALSE)
    /\ obs = Obs("Init", FALSE, << >>, 0, {})
    /\ fired = NotFired
    /\ streak = NoStreak
    /\ boot = 0
    /\ NoUtilities
    /\ threads = NoThreads

\* The clock advances by one millisecond
Tick ==
    /\ Elapsed(now) < MaxTime
    /\ now' = Add32(now, 1)
    /\ obs' = Obs("Tick", FALSE, << >>, Add32(now, 1), {})
    /\ UNCHANGED <<utilities, boot, threads, variant, am, vm, fired, streak>>

-----------------------------------------------------------------------------
(* VariableAnomalyMonitor: the calls *)

\* UpdateValue(newValue).  Cleanup() reads the clock again: cleanupTime.
AMUpdateValue(newValue) ==
    /\ variant = "deque"
    /\ IF AMTooFrequent(am, now)
       THEN /\ obs' = Obs("UpdateValue", FALSE, <<newValue>>, now, {})
            /\ UNCHANGED <<utilities, boot, threads, variant, now, am, vm, fired, streak>>
       ELSE \E cleanupTime \in {now, Add32(now, 1)} :
            /\ Elapsed(cleanupTime) <= MaxTime
            /\ Len(am.thresholdAnomalies) < MaxAnomalies
            /\ Len(am.slopeAnomalies) < MaxAnomalies
            /\ am' = Cleanup(AMClassify(am, newValue, now), cleanupTime)
            /\ now' = cleanupTime
            /\ obs' = Obs("UpdateValue", TRUE, <<newValue>>, now,
                          ZeroDiv(AMCalculatedSlope(AMStore(am, newValue, now)).d = 0))
            /\ fired' = NotFired
            /\ streak' =
                 [thr |-> Extend(streak.thr, AMThresholdAnomaly(am, newValue), now),
                  slp |-> Extend(streak.slp,
                             AMSlopeAnomaly(am,
                                 AMCalculatedSlope(AMStore(am, newValue, now))), now)]
            /\ UNCHANGED <<utilities, boot, threads, variant, vm>>

\* CheckThreshold()
AMCheckThreshold ==
    /\ variant = "deque"
    /\ am' = CheckThreshold(am, now).m
    /\ obs' = Obs("CheckThreshold", CheckThreshold(am, now).ret, << >>, now, {})
    /\ fired' = [fired EXCEPT !.thr = @ \/ CheckThreshold(am, now).ret]
    /\ UNCHANGED <<utilities, boot, threads, variant, now, vm, streak>>

\* CheckSlope()
AMCheckSlope ==
    /\ variant = "deque"
    /\ am' = CheckSlope(am, now).m
    /\ obs' = Obs("CheckSlope", CheckSlope(am, now).ret, << >>, now, {})
    /\ fired' = [fired EXCEPT !.slp = @ \/ CheckSlope(am, now).ret]
    /\ UNCHANGED <<utilities, boot, threads, variant, now, vm, streak>>

\* SetMinTimeBetweenUpdateStoreMsec(minTimeBetweenUpdateMsec)
AMSetMinTimeBetweenUpdateStoreMsec(minTimeBetweenUpdateMsec) ==
    /\ variant = "deque"
    /\ am' = [am EXCEPT !.minTimeBetweenUpdateSampleStoringMsec = minTimeBetweenUpdateMsec]
    /\ obs' = Obs("SetMinTimeBetweenUpdateStoreMsec", FALSE,
                  <<minTimeBetweenUpdateMsec>>, now, {})
    /\ UNCHANGED <<utilities, boot, threads, variant, now, vm, fired, streak>>

-----------------------------------------------------------------------------
(* VariableMonitor: the calls *)

\* UpdateValue(newValue)
VMUpdateValue(newValue) ==
    /\ variant = "ring"
    /\ IF VMTooFrequent(vm, now)
       THEN /\ obs' = Obs("UpdateValue", FALSE, <<newValue>>, now, {})
            /\ UNCHANGED <<utilities, boot, threads, variant, now, am, vm, fired, streak>>
       ELSE LET slope == VMSlopeCheck(vm,
                             RingAppend(vm.values, TimestampedVariable(newValue, now)),
                             newValue, now)
            IN /\ vm' = VMClassify(vm, newValue, now)
               /\ obs' = Obs("UpdateValue", TRUE, <<newValue>>, now,
                             ZeroDiv(slope.evaluated /\ slope.deltaTimeMsec = 0))
               /\ fired' = NotFired
               /\ streak' =
                    [thr |-> Extend(streak.thr,
                                vm.tp.ThresholdWindowMsec > 0
                                   /\ VMThresholdAnomaly(vm, newValue), now),
                     slp |-> Extend(streak.slp, slope.anomaly, now)]
               /\ UNCHANGED <<utilities, boot, threads, variant, now, am>>

\* CheckSlope()
VMCheckSlope ==
    /\ variant = "ring"
    /\ obs' = Obs("CheckSlope", FALSE, << >>, now, {})
    /\ UNCHANGED <<utilities, boot, threads, variant, now, am, vm, fired, streak>>

-----------------------------------------------------------------------------
(* The consistency queries.  They read the store and change nothing, so a   *)
(* run with two queries in a row reaches no state of the monitor that a    *)
(* run with one does not: the runs make one query between two other steps. *)

QueryOps ==
    { "CheckIfValueConsistently", "CheckIfValueBetweenBoundConsistently",
      "CheckIfValueOutOfBoundConsistently" }

GetterOps == { "GetSimpleSlopeOverDeltaTime", "GetAverageValue" }

ValueOps == { "GetLastValue", "GetMaxValue", "GetMinValue", "GetAverageSchemeValue",
              "GetAdvancedSlopeOverDeltaTime" }

\* The calls that read the monitor and change nothing
PureOps == QueryOps \cup GetterOps \cup ValueOps

QueryThresholds == {50}

BoundPairs == { <<40, 60>>, <<50, 60>> }

Durations == {1, 3}

MinDataPointChoices == {0, 3}

\* What a read through values.rend() may give for a timestamp
GarbageTimes == 0 .. MaxTime

AMCheckIfValueConsistentlyCall(checkBelow, thresholdValue, durationMsec, useCurrentTime, minDataPoints) ==
    /\ variant = "deque"
    /\ obs.op \notin PureOps
    /\ obs' = Obs("CheckIfValueConsistently",
                  AMCheckIfValueConsistently(am, checkBelow, thresholdValue,
                      durationMsec, useCurrentTime, minDataPoints, now),
                  <<checkBelow, thresholdValue, durationMsec, useCurrentTime,
                    minDataPoints>>, now, {})
    /\ UNCHANGED <<utilities, boot, threads, variant, now, am, vm, fired, streak>>

AMCheckIfValueBetweenBoundConsistentlyCall(lowerThresholdValue, upperThresholdValue, durationMsec, useCurrentTime, minDataPoints) ==
    /\ variant = "deque"
    /\ obs.op \notin PureOps
    /\ obs' = Obs("CheckIfValueBetweenBoundConsistently",
                  AMCheckIfValueBetweenBoundConsistently(am, lowerThresholdValue,
                      upperThresholdValue, durationMsec, useCurrentTime,
                      minDataPoints, now),
                  <<lowerThresholdValue, upperThresholdValue, durationMsec,
                    useCurrentTime, minDataPoints>>, now, {})
    /\ UNCHANGED <<utilities, boot, threads, variant, now, am, vm, fired, streak>>

AMCheckIfValueOutOfBoundConsistentlyCall(lowerThresholdValue, upperThresholdValue, durationMsec, useCurrentTime, minDataPoints) ==
    /\ variant = "deque"
    /\ obs.op \notin PureOps
    /\ obs' = Obs("CheckIfValueOutOfBoundConsistently",
                  AMCheckIfValueOutOfBoundConsistently(am, lowerThresholdValue,
                      upperThresholdValue, durationMsec, useCurrentTime,
                      minDataPoints, now),
                  <<lowerThresholdValue, upperThresholdValue, durationMsec,
                    useCurrentTime, minDataPoints>>, now, {})
    /\ UNCHANGED <<utilities, boot, threads, variant, now, am, vm, fired, streak>>

\* The values endTimeMsec can take: with useCurrentTime false (and a store that
\* is not empty) it is read through backIterator = values.rend()
VMEndTimes(m, useCurrentTime, currentTime) ==
    IF useCurrentTime \/ GetCount(m.values) = 0 THEN {currentTime} ELSE GarbageTimes

\* The record of a ring query whose outcome is r: the call returns either
\* value when its loop read through the end iterator
VMQueryReturns(op, r, args, useCurrentTime) ==
    /\ \E ret \in (IF r.oob THEN BOOLEAN ELSE {r.ret}) :
          obs' = Obs(op, ret, args, now,
                     IF r.oob \/ (~useCurrentTime /\ GetCount(vm.values) # 0)
                     THEN {"oob"} ELSE {})
    /\ UNCHANGED <<utilities, boot, threads, variant, now, am, vm, fired, streak>>

VMCheckIfValueConsistentlyCall(checkBelow, thresholdValue, durationMsec, useCurrentTime, minDataPoints) ==
    /\ variant = "ring"
    /\ obs.op \notin PureOps
    /\ \E endTimeMsec \in VMEndTimes(vm, useCurrentTime, now) :
          VMQueryReturns("CheckIfValueConsistently",
              VMCheckIfValueConsistently(vm, checkBelow, thresholdValue, durationMsec,
                                         minDataPoints, endTimeMsec),
              <<checkBelow, thresholdValue, durationMsec, useCurrentTime,
                minDataPoints>>, useCurrentTime)

VMCheckIfValueBetweenBoundConsistentlyCall(lowerThresholdValue, upperThresholdValue, durationMsec, useCurrentTime, minDataPoints) ==
    /\ variant = "ring"
    /\ obs.op \notin PureOps
    /\ \E endTimeMsec \in VMEndTimes(vm, useCurrentTime, now) :
          VMQueryReturns("CheckIfValueBetweenBoundConsistently",
              VMCheckIfValueBetweenBoundConsistently(vm, lowerThresholdValue,
                  upperThresholdValue, durationMsec, minDataPoints, endTimeMsec),
              <<lowerThresholdValue, upperThresholdValue, durationMsec, useCurrentTime,
                minDataPoints>>, useCurrentTime)

VMCheckIfValueOutOfBoundConsistentlyCall(lowerThresholdValue, upperThresholdValue, durationMsec, useCurrentTime, minDataPoints) ==
    /\ variant = "ring"
    /\ obs.op \notin PureOps
    /\ \E endTimeMsec \in VMEndTimes(vm, useCurrentTime, now) :
          VMQueryReturns("CheckIfValueOutOfBoundConsistently",
              VMCheckIfValueOutOfBoundConsistently(vm, lowerThresholdValue,
                  upperThresholdValue, durationMsec, minDataPoints, endTimeMsec),
              <<lowerThresholdValue, upperThresholdValue, durationMsec, useCurrentTime,
                minDataPoints>>, useCurrentTime)

-----------------------------------------------------------------------------

Next ==
    \/ Tick
    \/ \E newValue \in Values : AMUpdateValue(newValue)
    \/ AMCheckThreshold
    \/ AMCheckSlope
    \/ \E m \in MinTimeChoices : AMSetMinTimeBetweenUpdateStoreMsec(m)
    \/ \E newValue \in Values : VMUpdateValue(newValue)
    \/ VMCheckSlope

Spec == Init /\ [][Next]_vars

\* The runs for the consistency queries: one monitor of each variant, with
\* windows that keep every sample of the run's first three milliseconds
InitQ ==
    /\ variant \in {"deque", "ring"}
    /\ now = 0
    /\ am = VariableAnomalyMonitor(1, 50, 3, 3, FALSE, 10, 3, 3, FALSE, FALSE)
    /\ vm = VariableMonitor(TemplateArgs(1, 2, 1, 1), 50, "AboveLimit", 10,
                            "AboveLimit", "Directional", 0)
    /\ obs = Obs("Init", FALSE, << >>, 0, {})
    /\ fired = NotFired
    /\ streak = NoStreak
    /\ boot = 0
    /\ NoUtilities
    /\ threads = NoThreads

NextQ ==
    \/ Tick
    \/ \E newValue \in Values : AMUpdateValue(newValue)
    \/ \E newValue \in Values : VMUpdateValue(newValue)
    \/ \E checkBelow \in BOOLEAN, thresholdValue \in QueryThresholds,
          durationMsec \in Durations, useCurrentTime \in BOOLEAN,
          minDataPoints \in MinDataPointChoices :
          \/ AMCheckIfValueConsistentlyCall(checkBelow, thresholdValue, durationMsec,
                                            useCurrentTime, minDataPoints)
          \/ VMCheckIfValueConsistentlyCall(checkBelow, thresholdValue, durationMsec,
                                            useCurrentTime, minDataPoints)
    \/ \E bounds \in BoundPairs, durationMsec \in Durations, useCurrentTime \in BOOLEAN,
          minDataPoints \in MinDataPointChoices :
          \/ AMCheckIfValueBetweenBoundConsistentlyCall(bounds[1], bounds[2],
                 durationMsec, useCurrentTime, minDataPoints)
          \/ AMCheckIfValueOutOfBoundConsistentlyCall(bounds[1], bounds[2],
                 durationMsec, useCurrentTime, minDataPoints)
          \/ VMCheckIfValueBetweenBoundConsistentlyCall(bounds[1], bounds[2],
                 durationMsec, useCurrentTime, minDataPoints)
          \/ VMCheckIfValueOutOfBoundConsistentlyCall(bounds[1], bounds[2],
                 durationMsec, useCurrentTime, minDataPoints)

SpecQ == InitQ /\ [][NextQ]_vars

-----------------------------------------------------------------------------
(* The slope and average queries: the calls.  Like the consistency queries *)
(* they change nothing, and the runs make one of them between two other    *)
(* steps.                                                                  *)

SlopeDeltas == {1, 2, 3}

AverageDurations == {1, 2}

AverageMinDataPoints == {0, 2}

AMGetSimpleSlopeOverDeltaTimeCall(deltaTimeMsec, useCurrentTime) ==
    /\ variant = "deque"
    /\ obs.op \notin PureOps
    /\ LET r == AMGetSimpleSlopeOverDeltaTime(am, deltaTimeMsec, useCurrentTime, now)
       IN obs' = ObsOut("GetSimpleSlopeOverDeltaTime", r.ret, r.out,
                        <<deltaTimeMsec, useCurrentTime>>, now, {})
    /\ UNCHANGED <<utilities, boot, threads, variant, now, am, vm, fired, streak>>

VMGetSimpleSlopeOverDeltaTimeCall(deltaTimeMsec, useCurrentTime) ==
    /\ variant = "ring"
    /\ obs.op \notin PureOps
    /\ \E endTimeMsec \in VMEndTimes(vm, useCurrentTime, now) :
          LET r == VMGetSimpleSlopeOverDeltaTime(vm, deltaTimeMsec, endTimeMsec)
          IN obs' = ObsOut("GetSimpleSlopeOverDeltaTime", r.ret, r.out,
                           <<deltaTimeMsec, useCurrentTime>>, now,
                           IF ~useCurrentTime /\ GetCount(vm.values) # 0
                           THEN {"oob"} ELSE {})
    /\ UNCHANGED <<utilities, boot, threads, variant, now, am, vm, fired, streak>>

\* A division of ints by zero has no defined result: the call may return
\* either value
AMGetAverageValueCall(durationMsec, useCurrentTime, minDataPoints) ==
    /\ variant = "deque"
    /\ obs.op \notin PureOps
    /\ LET r == AMGetAverageValue(am, durationMsec, useCurrentTime, minDataPoints, now)
       IN \E ret \in (IF r.zero THEN BOOLEAN ELSE {r.ret}) :
             obs' = ObsOut("GetAverageValue", ret, r.out,
                           <<durationMsec, useCurrentTime, minDataPoints>>, now,
                           IF r.zero THEN {"zeroCount"} ELSE {})
    /\ UNCHANGED <<utilities, boot, threads, variant, now, am, vm, fired, streak>>

\* The values endTimeMsec can take in GetAverageValue: with useCurrentTime
\* false it is read through lastIterator = values.crbegin(), which is the end
\* iterator when the ring has one slot and is full
VMLastTimes(m, useCurrentTime, currentTime) ==
    IF useCurrentTime \/ GetCount(m.values) = 0 THEN {currentTime}
    ELSE IF rbegin(m.values) = EndIndex THEN GarbageTimes
    ELSE {m.values.buffer[rbegin(m.values)].timestamp}

VMGetAverageValueCall(durationMsec, useCurrentTime, minDataPoints) ==
    /\ variant = "ring"
    /\ obs.op \notin PureOps
    /\ \E endTimeMsec \in VMLastTimes(vm, useCurrentTime, now) :
          LET r == VMGetAverageValue(vm, durationMsec, minDataPoints, endTimeMsec)
              lastIsEnd == /\ ~useCurrentTime /\ minDataPoints > 0
                           /\ GetCount(vm.values) # 0 /\ rbegin(vm.values) = EndIndex
          IN \E ret \in (IF r.oob THEN BOOLEAN ELSE {r.ret}) :
                obs' = ObsOut("GetAverageValue", ret, r.out,
                              <<durationMsec, useCurrentTime, minDataPoints>>, now,
                              IF r.oob \/ lastIsEnd THEN {"oob"} ELSE {})
    /\ UNCHANGED <<utilities, boot, threads, variant, now, am, vm, fired, streak>>

NextG ==
    \/ Tick
    \/ \E newValue \in Values : AMUpdateValue(newValue)
    \/ \E newValue \in Values : VMUpdateValue(newValue)
    \/ \E deltaTimeMsec \in SlopeDeltas, useCurrentTime \in BOOLEAN :
          \/ AMGetSimpleSlopeOverDeltaTimeCall(deltaTimeMsec, useCurrentTime)
          \/ VMGetSimpleSlopeOverDeltaTimeCall(deltaTimeMsec, useCurrentTime)
    \/ \E durationMsec \in AverageDurations, useCurrentTime \in BOOLEAN,
          minDataPoints \in AverageMinDataPoints :
          \/ AMGetAverageValueCall(durationMsec, useCurrentTime, minDataPoints)
          \/ VMGetAverageValueCall(durationMsec, useCurrentTime, minDataPoints)

\* The monitors of the runs are those of the consistency queries
SpecG == InitQ /\ [][NextG]_vars

-----------------------------------------------------------------------------
(* The remaining queries and the calls that empty the monitor: the calls *)

AveragingSchemes == {"MEAN", "MEDIAN"}

WindowSizes == {1, 2}

\* GetLastValue(): the value returned is recorded as out
AMGetLastValueCall ==
    /\ variant = "deque"
    /\ obs.op \notin PureOps
    /\ obs' = ObsOut("GetLastValue", FALSE, Div(AMGetLastValue(am), 1), << >>, now, {})
    /\ UNCHANGED <<utilities, boot, threads, variant, now, am, vm, fired, streak>>

AMGetMaxValueCall ==
    /\ variant = "deque"
    /\ obs.op \notin PureOps
    /\ obs' = ObsOut("GetMaxValue", AMGetMaxValue(am).ret, AMGetMaxValue(am).out,
                     << >>, now, {})
    /\ UNCHANGED <<utilities, boot, threads, variant, now, am, vm, fired, streak>>

AMGetMinValueCall ==
    /\ variant = "deque"
    /\ obs.op \notin PureOps
    /\ obs' = ObsOut("GetMinValue", AMGetMinValue(am).ret, AMGetMinValue(am).out,
                     << >>, now, {})
    /\ UNCHANGED <<utilities, boot, threads, variant, now, am, vm, fired, streak>>

AMGetAverageSchemeValueCall(scheme, durationMsec, useCurrentTime, minDataPoints) ==
    /\ variant = "deque"
    /\ obs.op \notin PureOps
    /\ LET r == AMGetAverageSchemeValue(am, scheme, durationMsec, useCurrentTime,
                                        minDataPoints, now)
       IN \E ret \in (IF r.zero THEN BOOLEAN ELSE {r.ret}) :
             obs' = ObsOut("GetAverageSchemeValue", ret, r.out,
                           <<durationMsec, useCurrentTime, minDataPoints, scheme>>, now,
                           IF r.zero THEN {"zeroCount"} ELSE {})
    /\ UNCHANGED <<utilities, boot, threads, variant, now, am, vm, fired, streak>>

AMGetAdvancedSlopeOverDeltaTimeCall(deltaTimeMsec, windowSize) ==
    /\ variant = "deque"
    /\ obs.op \notin PureOps
    /\ LET r == AMGetAdvancedSlopeOverDeltaTime(am, deltaTimeMsec, windowSize, now)
       IN obs' = ObsOut("GetAdvancedSlopeOverDeltaTime", r.ret, r.out,
                        <<deltaTimeMsec, windowSize>>, now, {})
    /\ UNCHANGED <<utilities, boot, threads, variant, now, am, vm, fired, streak>>

\* CleanupAll()
AMCleanupAll ==
    /\ variant = "deque"
    /\ am' = CleanupAll(am, now)
    /\ obs' = Obs("CleanupAll", FALSE, << >>, now, {})
    /\ streak' = [thr |-> IF CleanupAll(am, now).thresholdAnomalies = << >>
                          THEN NoTime ELSE streak.thr,
                  slp |-> IF CleanupAll(am, now).slopeAnomalies = << >>
                          THEN NoTime ELSE streak.slp]
    /\ UNCHANGED <<utilities, boot, threads, variant, now, vm, fired>>

VMGetLastValueCall ==
    /\ variant = "ring"
    /\ obs.op \notin PureOps
    /\ obs' = ObsOut("GetLastValue", FALSE, Div(VMGetLastValue(vm, now), 1), << >>, now, {})
    /\ UNCHANGED <<utilities, boot, threads, variant, now, am, vm, fired, streak>>

VMGetMaxValueCall ==
    /\ variant = "ring"
    /\ obs.op \notin PureOps
    /\ obs' = ObsOut("GetMaxValue", VMGetMaxValue(vm, now).ret, VMGetMaxValue(vm, now).out,
                     << >>, now, {})
    /\ UNCHANGED <<utilities, boot, threads, variant, now, am, vm, fired, streak>>

VMGetMinValueCall ==
    /\ variant = "ring"
    /\ obs.op \notin PureOps
    /\ obs' = ObsOut("GetMinValue", VMGetMinValue(vm, now).ret, VMGetMinValue(vm, now).out,
                     << >>, now, {})
    /\ UNCHANGED <<utilities, boot, threads, variant, now, am, vm, fired, streak>>

VMGetAverageSchemeValueCall(scheme, durationMsec, useCurrentTime, minDataPoints) ==
    /\ variant = "ring"
    /\ obs.op \notin PureOps
    /\ \E endTimeMsec \in VMLastTimes(vm, useCurrentTime, now) :
          LET r == VMGetAverageSchemeValue(vm, scheme, durationMsec, minDataPoints,
                                           endTimeMsec)
              lastIsEnd == /\ scheme = "MEAN" /\ ~useCurrentTime /\ minDataPoints > 0
                           /\ GetCount(vm.values) # 0 /\ rbegin(vm.values) = EndIndex
          IN \E ret \in (IF r.oob THEN BOOLEAN ELSE {r.ret}) :
                obs' = ObsOut("GetAverageSchemeValue", ret, r.out,
                              <<durationMsec, useCurrentTime, minDataPoints, scheme>>, now,
                              IF r.oob \/ lastIsEnd THEN {"oob"} ELSE {})
    /\ UNCHANGED <<utilities, boot, threads, variant, now, am, vm, fired, streak>>

VMGetAdvancedSlopeOverDeltaTimeCall(deltaTimeMsec, windowSize) ==
    /\ variant = "ring"
    /\ obs.op \notin PureOps
    /\ obs' = Obs("GetAdvancedSlopeOverDeltaTime",
                  VMGetAdvancedSlopeOverDeltaTime(vm, deltaTimeMsec, windowSize),
                  <<deltaTimeMsec, windowSize>>, now, {})
    /\ UNCHANGED <<utilities, boot, threads, variant, now, am, vm, fired, streak>>

\* Erase()
VMEraseCall ==
    /\ variant = "ring"
    /\ vm' = VMErase(vm)
    /\ obs' = Obs("Erase", FALSE, << >>, now, {})
    /\ streak' = NoStreak
    /\ UNCHANGED <<utilities, boot, threads, variant, now, am, fired>>

\* The monitors of these runs: one of each variant with windows of a few
\* milliseconds, a VariableAnomalyMonitor with time periods of 0 and a
\* VariableMonitor of one slot
InitE ==
    /\ variant \in {"deque", "ring"}
    /\ now = 0
    /\ am \in { VariableAnomalyMonitor(1, 50, 3, 2, FALSE, 10, 2, 2, FALSE, FALSE),
                 VariableAnomalyMonitor(1, 50, 0, 1, FALSE, 10, 0, 1, FALSE, FALSE) }
    /\ vm \in { VariableMonitor(TemplateArgs(1, 2, 2, 2), 50, "AboveLimit", 10,
                                 "AboveLimit", "Directional", 0),
                 VariableMonitor(TemplateArgs(2, 1, 0, 0), 50, "BelowLimit", 10,
                                 "AboveLimit", "Absolute", 0) }
    /\ variant = "deque" => vm = VariableMonitor(TemplateArgs(1, 2, 2, 2), 50,
                                  "AboveLimit", 10, "AboveLimit", "Directional", 0)
    /\ variant = "ring" => am = VariableAnomalyMonitor(1, 50, 3, 2, FALSE, 10, 2, 2,
                                  FALSE, FALSE)
    /\ obs = Obs("Init", FALSE, << >>, 0, {})
    /\ fired = NotFired
    /\ streak = NoStreak
    /\ boot = 0
    /\ NoUtilities
    /\ threads = NoThreads

NextE ==
    \/ Tick
    \/ \E newValue \in Values : AMUpdateValue(newValue)
    \/ \E newValue \in Values : VMUpdateValue(newValue)
    \/ AMCleanupAll
    \/ VMEraseCall
    \/ AMCheckThreshold
    \/ AMCheckSlope
    \/ VMCheckSlope
    \/ AMGetLastValueCall
    \/ AMGetMaxValueCall
    \/ AMGetMinValueCall
    \/ VMGetLastValueCall
    \/ VMGetMaxValueCall
    \/ VMGetMinValueCall
    \/ \E checkBelow \in BOOLEAN, useCurrentTime \in BOOLEAN :
          \/ AMCheckIfValueConsistentlyCall(checkBelow, 50, 1, useCurrentTime, 0)
          \/ VMCheckIfValueConsistentlyCall(checkBelow, 50, 1, useCurrentTime, 0)
    \/ \E useCurrentTime \in BOOLEAN :
          \/ AMCheckIfValueBetweenBoundConsistentlyCall(40, 60, 1, useCurrentTime, 0)
          \/ AMCheckIfValueOutOfBoundConsistentlyCall(40, 60, 1, useCurrentTime, 0)
          \/ VMCheckIfValueBetweenBoundConsistentlyCall(40, 60, 1, useCurrentTime, 0)
          \/ VMCheckIfValueOutOfBoundConsistentlyCall(40, 60, 1, useCurrentTime, 0)
          \/ AMGetSimpleSlopeOverDeltaTimeCall(1, useCurrentTime)
          \/ VMGetSimpleSlopeOverDeltaTimeCall(1, useCurrentTime)
          \/ AMGetAverageValueCall(1, useCurrentTime, 0)
          \/ VMGetAverageValueCall(1, useCurrentTime, 2)
    \/ \E scheme \in AveragingSchemes, useCurrentTime \in BOOLEAN :
          \/ AMGetAverageSchemeValueCall(scheme, 1, useCurrentTime, 0)
          \/ VMGetAverageSchemeValueCall(scheme, 1, useCurrentTime, 2)
    \/ \E windowSize \in WindowSizes :
          \/ AMGetAdvancedSlopeOverDeltaTimeCall(2, windowSize)
          \/ VMGetAdvancedSlopeOverDeltaTimeCall(2, windowSize)

SpecE == InitE /\ [][NextE]_vars

-----------------------------------------------------------------------------
(* The runs across the wrap of the millisecond clock: the clock starts     *)
(* WrapLead milliseconds before the largest uint32_t value is passed.  The *)
(* ring monitors have two slots or more.                                   *)

WrapLead == 2

InitW ==
    /\ variant \in {"deque", "ring"}
    /\ boot = UintModulus - WrapLead
    /\ NoUtilities
    /\ now = boot
    /\ am \in AMConfigs
    /\ vm \in { VariableMonitor(TemplateArgs(1, 2, 2, 2), 50, "AboveLimit", 10,
                                 "AboveLimit", "Directional", boot),
                 VariableMonitor(TemplateArgs(2, 4, 4, 2), 50, "AboveLimit", 0 - 10,
                                 "AboveLimit", "Absolute", boot) }
    /\ variant = "deque" => vm = VariableMonitor(TemplateArgs(1, 2, 2, 2), 50,
                                  "AboveLimit", 10, "AboveLimit", "Directional", boot)
    /\ variant = "ring" => am = VariableAnomalyMonitor(1, 50, 3, 2, FALSE, 10, 2, 2,
                                  FALSE, FALSE)
    /\ obs = Obs("Init", FALSE, << >>, boot, {})
    /\ fired = NotFired
    /\ streak = NoStreak
    /\ threads = NoThreads

NextW ==
    \/ Tick
    \/ \E newValue \in Values : AMUpdateValue(newValue)
    \/ AMCheckThreshold
    \/ AMCheckSlope
    \/ \E newValue \in Values : VMUpdateValue(newValue)
    \/ \E checkBelow \in BOOLEAN, thresholdValue \in QueryThresholds,
          durationMsec \in Durations, useCurrentTime \in BOOLEAN,
          minDataPoints \in MinDataPointChoices :
          AMCheckIfValueConsistentlyCall(checkBelow, thresholdValue, durationMsec,
                                         useCurrentTime, minDataPoints)

SpecW == InitW /\ [][NextW]_vars

-----------------------------------------------------------------------------
(* Two threads calling one VariableAnomalyMonitor.  A call is a sequence   *)
(* of steps of its thread, threads.pc[t] being the thread's position; the  *)
(* steps of the two threads interleave wherever no lock forbids it.        *)
(* MutexGuard is a scoped lock: its constructor takes the mutex when it is *)
(* free, and the mutex is released when the call returns.                  *)

\* The positions of a thread inside UpdateValue, after the throttle test
UpdateRegion == {"store", "classify", "cleanup"}

\* The setters that construct a MutexGuard on configMutex
GuardedSetters ==
    { "SetSlopeLimit", "UseAbsoluteSlope", "SetThreshold",
      "SetThresholdAnomalyDurationMsec", "SetCheckBelowThreshold" }

InUpdateValue(t) == threads.pc[t] \in UpdateRegion

\* "race": the step reads or writes the store while another thread is inside
\* UpdateValue; "noLock": a setter wrote a field without holding configMutex
Racing(t) == IF \E u \in Threads \ {t} : InUpdateValue(u) THEN {"race"} ELSE {}

NotHolding(t) == IF threads.configMutex = t THEN {} ELSE {"noLock"}

\* UpdateValue, first step: the clock is read and the throttle test made
UpdateValueEnter(t, newValue) ==
    /\ threads.pc[t] = "idle"
    /\ IF AMTooFrequent(am, now)
       THEN /\ obs' = Obs("UpdateValue", FALSE, <<newValue>>, now, Racing(t))
            /\ UNCHANGED threads
       ELSE /\ threads' = [threads EXCEPT !.pc[t] = "store", !.newValue[t] = newValue,
                                          !.currentTime[t] = now]
            /\ obs' = Obs("UpdateValue:step", FALSE, << >>, now, Racing(t))
    /\ UNCHANGED <<utilities, boot, variant, now, am, vm, fired, streak>>

\* UpdateValue, second step: the sample is stored
UpdateValueStore(t) ==
    /\ threads.pc[t] = "store"
    /\ am' = [am EXCEPT !.values = AMStore(am, threads.newValue[t],
                                           threads.currentTime[t])]
    /\ threads' = [threads EXCEPT !.pc[t] = "classify"]
    /\ obs' = Obs("UpdateValue:step", FALSE, << >>, now, Racing(t))
    /\ UNCHANGED <<utilities, boot, variant, now, vm, fired, streak>>

\* UpdateValue, third step: the slope and the threshold of the new sample are
\* tested and the anomaly records updated.  Another thread's Cleanup() may
\* have emptied the store: values.back() then reads no element, and the slope
\* test may come out either way.
UpdateValueClassify(t) ==
    /\ threads.pc[t] = "classify"
    /\ Len(am.thresholdAnomalies) < MaxAnomalies
    /\ Len(am.slopeAnomalies) < MaxAnomalies
    /\ \E slopeHit \in BOOLEAN :
         /\ am.values # << >> => slopeHit = AMSlopeAnomaly(am, AMCalculatedSlope(am.values))
         /\ LET threshHit == AMThresholdAnomaly(am, threads.newValue[t])
                currentTime == threads.currentTime[t]
            IN am' = [am EXCEPT
                  !.slopeAnomalies = IF slopeHit THEN Append(@, currentTime) ELSE << >>,
                  !.lastSlopeAnomalyTimeMsec = IF slopeHit THEN currentTime ELSE @,
                  !.thresholdAnomalies = IF threshHit THEN Append(@, currentTime)
                                         ELSE << >>,
                  !.lastThresholdAnomalyTimeMsec = IF threshHit THEN currentTime ELSE @]
    /\ threads' = [threads EXCEPT !.pc[t] = "cleanup"]
    /\ obs' = Obs("UpdateValue:step", FALSE, << >>, now,
                  Racing(t) \cup (IF am.values = << >> THEN {"oob"} ELSE {}))
    /\ UNCHANGED <<utilities, boot, variant, now, vm, fired, streak>>

\* UpdateValue, last step: Cleanup() reads the clock and trims, and the call
\* returns true
UpdateValueCleanup(t) ==
    /\ threads.pc[t] = "cleanup"
    /\ am' = Cleanup(am, now)
    /\ threads' = [threads EXCEPT !.pc[t] = "idle"]
    /\ obs' = Obs("UpdateValue", TRUE, <<threads.newValue[t]>>,
                  threads.currentTime[t], Racing(t))
    /\ UNCHANGED <<utilities, boot, variant, now, vm, fired, streak>>

\* A guarded setter, first step: MutexGuard guard(configMutex)
SetterEnter(t, setter, args) ==
    /\ threads.pc[t] = "idle"
    /\ threads.configMutex = 0
    /\ threads' = [threads EXCEPT !.pc[t] = setter, !.args[t] = args,
                                  !.configMutex = t]
    /\ obs' = Obs("Setter:enter", FALSE, << >>, now, {})
    /\ UNCHANGED <<utilities, boot, variant, now, am, vm, fired, streak>>

\* The assignments of a setter
SetterAssign(m, setter, args) ==
    CASE setter = "SetSlopeLimit" ->
           [m EXCEPT !.slopeLimit = args[1], !.slopeTimePeriodMsec = args[2],
                     !.slopeAnomalyDurationMsec = args[3]]
      [] setter = "UseAbsoluteSlope" -> [m EXCEPT !.useAbsoluteSlope = args[1]]
      [] setter = "SetThreshold" ->
           IF Len(args) = 1 THEN [m EXCEPT !.threshold = args[1]]
           ELSE [m EXCEPT !.threshold = args[1], !.thresholdAnomalyDurationMsec = args[3],
                          !.thresholdTimePeriodMsec = args[2]]
      [] setter = "SetThresholdAnomalyDurationMsec" ->
           [m EXCEPT !.thresholdAnomalyDurationMsec = args[1]]
      [] setter = "SetCheckBelowThreshold" -> [m EXCEPT !.checkBelowThreshold = args[1]]

\* A guarded setter, second step: the assignments, and the guard's destructor
\* on return
SetterReturn(t) ==
    /\ threads.pc[t] \in GuardedSetters
    /\ am' = SetterAssign(am, threads.pc[t], threads.args[t])
    /\ threads' = [threads EXCEPT !.pc[t] = "idle", !.args[t] = << >>,
                                  !.configMutex = IF @ = t THEN 0 ELSE @]
    /\ obs' = Obs(threads.pc[t], FALSE, << >>, now, NotHolding(t))
    /\ UNCHANGED <<utilities, boot, variant, now, vm, fired, streak>>

\* SetMinTimeBetweenUpdateStoreMsec, called by thread t: one assignment
SetMinTimeBetweenUpdateStoreMsecBy(t, minTimeBetweenUpdateMsec) ==
    /\ threads.pc[t] = "idle"
    /\ am' = [am EXCEPT !.minTimeBetweenUpdateSampleStoringMsec = minTimeBetweenUpdateMsec]
    /\ obs' = Obs("SetMinTimeBetweenUpdateStoreMsec", FALSE, << >>, now, NotHolding(t))
    /\ UNCHANGED <<utilities, boot, threads, variant, now, vm, fired, streak>>

InitC ==
    /\ variant = "deque"
    /\ now = MaxTime - 1
    /\ am = VariableAnomalyMonitor(1, 50, 0, 1, FALSE, 10, 0, 1, FALSE, FALSE)
    /\ vm = VariableMonitor(TemplateArgs(1, 2, 2, 2), 50, "AboveLimit", 10,
                            "AboveLimit", "Directional", 0)
    /\ obs = Obs("Init", FALSE, << >>, now, {})
    /\ fired = NotFired
    /\ streak = NoStreak
    /\ boot = 0
    /\ NoUtilities
    /\ threads = NoThreads

NextC ==
    \/ Tick
    \/ \E t \in Threads :
          \/ \E newValue \in Values \ {50} : UpdateValueEnter(t, newValue)
          \/ UpdateValueStore(t)
          \/ UpdateValueClassify(t)
          \/ UpdateValueCleanup(t)
          \/ SetterEnter(t, "SetSlopeLimit", <<10, 0, 1>>)
          \/ SetterEnter(t, "UseAbsoluteSlope", <<FALSE>>)
          \/ SetterEnter(t, "SetThreshold", <<40>>)
          \/ SetterEnter(t, "SetThreshold", <<50, 0, 1>>)
          \/ SetterEnter(t, "SetThresholdAnomalyDurationMsec", <<1>>)
          \/ SetterEnter(t, "SetCheckBelowThreshold", <<FALSE>>)
          \/ SetterReturn(t)
          \/ \E m \in MinTimeChoices : SetMinTimeBetweenUpdateStoreMsecBy(t, m)

SpecC == InitC /\ [][NextC]_vars

-----------------------------------------------------------------------------
(* The runs of the ring-backed monitor with its counts and entry lookups.  *)
(* The lookups and counts change nothing; the runs make one of them        *)
(* between two other steps.                                                *)

RingOps ==
    { "GetValueCount", "GetThresholdAnomalyCount", "GetSlopeAnomalyCount",
      "GetOldestEntry", "GetNewestEntry" }

\* The timestamps the entry lookups are called with
EntryTimes == 0 .. MaxTime

VMGetValueCountCall ==
    /\ variant = "ring"
    /\ obs.op \notin RingOps
    /\ obs' = ObsOut("GetValueCount", FALSE, Div(VMGetValueCount(vm, now), 1),
                     << >>, now, {})
    /\ UNCHANGED <<utilities, boot, threads, variant, now, am, vm, fired, streak>>

VMGetThresholdAnomalyCountCall ==
    /\ variant = "ring"
    /\ obs.op \notin RingOps
    /\ obs' = ObsOut("GetThresholdAnomalyCount", FALSE,
                     Div(VMGetThresholdAnomalyCount(vm, now), 1), << >>, now, {})
    /\ UNCHANGED <<utilities, boot, threads, variant, now, am, vm, fired, streak>>

VMGetSlopeAnomalyCountCall ==
    /\ variant = "ring"
    /\ obs.op \notin RingOps
    /\ obs' = ObsOut("GetSlopeAnomalyCount", FALSE,
                     Div(VMGetSlopeAnomalyCount(vm, now), 1), << >>, now, {})
    /\ UNCHANGED <<utilities, boot, threads, variant, now, am, vm, fired, streak>>

\* GetOldestEntry(oldestTimestampMsec): out is the index the returned
\* iterator holds, EndIndex for end()
VMGetOldestEntryCall(oldestTimestampMsec) ==
    /\ variant = "ring"
    /\ obs.op \notin RingOps
    /\ obs' = ObsOut("GetOldestEntry", FALSE,
                     Div(GetOldestEntry(vm.values, oldestTimestampMsec), 1),
                     <<oldestTimestampMsec>>, now, {})
    /\ UNCHANGED <<utilities, boot, threads, variant, now, am, vm, fired, streak>>

\* GetNewestEntry(newestTimestampMsec)
VMGetNewestEntryCall(newestTimestampMsec) ==
    /\ variant = "ring"
    /\ obs.op \notin RingOps
    /\ obs' = ObsOut("GetNewestEntry", FALSE,
                     Div(GetNewestEntry(vm.values, newestTimestampMsec), 1),
                     <<newestTimestampMsec>>, now, {})
    /\ UNCHANGED <<utilities, boot, threads, variant, now, am, vm, fired, streak>>

InitR ==
    /\ variant = "ring"
    /\ now = 0
    /\ am = VariableAnomalyMonitor(1, 50, 3, 2, FALSE, 10, 2, 2, FALSE, FALSE)
    /\ vm \in VMConfigs
    /\ obs = Obs("Init", FALSE, << >>, 0, {})
    /\ fired = NotFired
    /\ streak = NoStreak
    /\ boot = 0
    /\ NoUtilities
    /\ threads = NoThreads

NextR ==
    \/ Tick
    \/ \E newValue \in Values : VMUpdateValue(newValue)
    \/ VMEraseCall
    \/ VMGetValueCountCall
    \/ VMGetThresholdAnomalyCountCall
    \/ VMGetSlopeAnomalyCountCall
    \/ \E timestampMsec \in EntryTimes :
          \/ VMGetOldestEntryCall(timestampMsec)
          \/ VMGetNewestEntryCall(timestampMsec)

SpecR == InitR /\ [][NextR]_vars

-----------------------------------------------------------------------------
(* The runs in which a caller makes a query twice: between the two calls   *)
(* the caller keeps what the first call returned.  The record of this step *)
(* holds the first call's result and output, and its name and arguments as *)
(* args.                                                                   *)

KeepResult ==
    /\ obs.op \in PureOps
    /\ obs' = ObsOut("KeepResult", obs.ret, obs.out, <<obs.op, obs.args>>, now, {})
    /\ UNCHANGED <<utilities, boot, threads, variant, now, am, vm, fired, streak>>

NextI == NextE \/ KeepResult

SpecI == InitE /\ [][NextI]_vars

-----------------------------------------------------------------------------
(* The guarded setters when taking configMutex can fail.  UTILITIES/common/ *)
(* Mutex.h is not among the sources: the guard is taken to be what the      *)
(* specification says of the lock, an acquisition that succeeds or fails    *)
(* (contention, timeout).  A setter constructs the guard, never asks it     *)
(* whether the lock was taken, and returns void; the record of a call has   *)
(* ret = FALSE and the fault "lockFailed" when the acquisition failed.      *)

AMSetterCall(setter, args, acquired) ==
    /\ variant = "deque"
    /\ am' = SetterAssign(am, setter, args)
    /\ obs' = Obs(setter, FALSE, args, now, IF acquired THEN {} ELSE {"lockFailed"})
    /\ UNCHANGED <<utilities, boot, threads, variant, now, vm, fired, streak>>

InitL ==
    /\ variant = "deque"
    /\ now = 0
    /\ am = VariableAnomalyMonitor(1, 50, 3, 2, FALSE, 10, 2, 2, FALSE, FALSE)
    /\ vm = VariableMonitor(TemplateArgs(1, 2, 2, 2), 50, "AboveLimit", 10,
                            "AboveLimit", "Directional", 0)
    /\ obs = Obs("Init", FALSE, << >>, 0, {})
    /\ fired = NotFired
    /\ streak = NoStreak
    /\ boot = 0
    /\ NoUtilities
    /\ threads = NoThreads

NextL ==
    \/ Tick
    \/ \E newValue \in Values \ {50} : AMUpdateValue(newValue)
    \/ \E acquired \in BOOLEAN :
          \/ AMSetterCall("SetSlopeLimit", <<0 - 10, 1, 1>>, acquired)
          \/ AMSetterCall("UseAbsoluteSlope", <<TRUE>>, acquired)
          \/ AMSetterCall("SetThreshold", <<40>>, acquired)
          \/ AMSetterCall("SetThreshold", <<50, 3, 2>>, acquired)
          \/ AMSetterCall("SetThresholdAnomalyDurationMsec", <<1>>, acquired)
          \/ AMSetterCall("SetCheckBelowThreshold", <<TRUE>>, acquired)

SpecL == InitL /\ [][NextL]_vars

-----------------------------------------------------------------------------
(* CheckIfSlope.  The record of a call holds, as out, the slope            *)
(* GetSimpleSlopeOverDeltaTime gives for the call's arguments, NoOut when  *)
(* it gives none.                                                          *)

\* CheckIfSlope of the VariableAnomalyMonitor
AMCheckIfSlope(m, checkBelow, slopeThresh, useAbsolute, deltaTimeMsec, useCurrentTime, currentTime) ==
    LET r == AMGetSimpleSlopeOverDeltaTime(m, deltaTimeMsec, useCurrentTime, currentTime)
        calculatedSlope == IF useAbsolute THEN fabs(r.out) ELSE r.out
        thresh == IF useAbsolute THEN IntAbs(slopeThresh) ELSE slopeThresh
    IN IF ~r.ret THEN FALSE
       ELSE IF checkBelow THEN Greater(calculatedSlope, thresh)
       ELSE Less(calculatedSlope, thresh)

\* CheckIfSlope of the VariableMonitor: the body is commented out but for its
\* first statement, return false
VMCheckIfSlope(m, checkBelow, slopeThresh, useAbsolute, deltaTimeMsec, useCurrentTime) == FALSE

SlopeThreshs == {0 - 10, 5}

AMCheckIfSlopeCall(checkBelow, slopeThresh, useAbsolute, deltaTimeMsec, useCurrentTime) ==
    /\ variant = "deque"
    /\ obs.op # "CheckIfSlope"
    /\ obs' = ObsOut("CheckIfSlope",
                     AMCheckIfSlope(am, checkBelow, slopeThresh, useAbsolute,
                                    deltaTimeMsec, useCurrentTime, now),
                     AMGetSimpleSlopeOverDeltaTime(am, deltaTimeMsec, useCurrentTime,
                                                   now).out,
                     <<checkBelow, slopeThresh, useAbsolute, deltaTimeMsec,
                       useCurrentTime>>, now, {})
    /\ UNCHANGED <<utilities, boot, threads, variant, now, am, vm, fired, streak>>

VMCheckIfSlopeCall(checkBelow, slopeThresh, useAbsolute, deltaTimeMsec, useCurrentTime) ==
    /\ variant = "ring"
    /\ obs.op # "CheckIfSlope"
    /\ obs' = ObsOut("CheckIfSlope",
                     VMCheckIfSlope(vm, checkBelow, slopeThresh, useAbsolute,
                                    deltaTimeMsec, useCurrentTime),
                     IF useCurrentTime
                     THEN VMGetSimpleSlopeOverDeltaTime(vm, deltaTimeMsec, now).out
                     ELSE NoOut,
                     <<checkBelow, slopeThresh, useAbsolute, deltaTimeMsec,
                       useCurrentTime>>, now, {})
    /\ UNCHANGED <<utilities, boot, threads, variant, now, am, vm, fired, streak>>

NextS ==
    \/ Tick
    \/ \E newValue \in Values : AMUpdateValue(newValue)
    \/ \E newValue \in Values : VMUpdateValue(newValue)
    \/ \E checkBelow \in BOOLEAN, slopeThresh \in SlopeThreshs, useAbsolute \in BOOLEAN,
          deltaTimeMsec \in SlopeDeltas, useCurrentTime \in BOOLEAN :
          \/ AMCheckIfSlopeCall(checkBelow, slopeThresh, useAbsolute, deltaTimeMsec,
                                useCurrentTime)
          \/ VMCheckIfSlopeCall(checkBelow, slopeThresh, useAbsolute, deltaTimeMsec,
                                useCurrentTime)

\* The monitors of the runs are those of the consistency queries
SpecS == InitQ /\ [][NextS]_vars

-----------------------------------------------------------------------------
(* SimpleStateMachine<EnumType> and SlightlyAdvancedStateMachine built on   *)
(* it.  A state is its enum value; the timestamps of the TimestampedVariable *)
(* fields are left out.  Threads are numbered from 1, and 0 is nullptr.      *)
(* Every call but StepToNextState runs under a MutexGuard on stateMutex and  *)
(* is one step; StepToNextState reads isNextStateSet and ownerThread before  *)
(* it constructs its guard, and is two steps.                                *)

NumberOfStates == 3

States == 0 .. NumberOfStates - 1

\* What LoopFunction returns in the runs
LoopDelay == 20

DEFAULT_LOOP_FUNCTION_INTERVAL_MSEC == 500

DEFAULT_LOOP_FUNCTION_STATE_EXITING_INTERVAL_MSEC == 100

\* statesActions: state 0 has the three functions, state 1 has no exit
\* function, state 2 has no StateActionsBase (nullptr)
StatesActions ==
    [ state \in States |->
        [ exists |-> state # 2,
          ExitFunction |-> state = 0,
          EntryFunction |-> state # 2,
          LoopFunction |-> state # 2 ] ]

\* The constructor.  invoked lists the state functions the last call ran, each
\* with what it returned (TRUE for a loop function).
SimpleStateMachine(initialState) ==
    [ previousState |-> initialState,
      currentState |-> initialState,
      nextState |-> initialState,
      isNextStateSet |-> FALSE,
      requestedState |-> initialState,
      isRequestedStateSet |-> FALSE,
      currAction |-> "STATE_RUNNING",
      ownerThread |-> 0,
      initialized |-> FALSE,
      invoked |-> << >> ]

\* EnsureInitialized(): Initialize() is tried while it has not succeeded;
\* created is what its MutexGuard reports
EnsureInitialized(m, created) == [m EXCEPT !.initialized = @ \/ created, !.invoked = << >>]

\* The outcomes Initialize() can have
Creations(m) == IF m.initialized THEN {TRUE} ELSE BOOLEAN

\* A SetState that does not ask who the owner is
SetStateByAnyThread(m, currentThread, newState, created) ==
    LET e == EnsureInitialized(m, created)
    IN IF e.initialized
       THEN [ret |-> TRUE,
             m |-> [e EXCEPT !.previousState = e.currentState, !.currentState = newState,
                             !.isNextStateSet = FALSE]]
       ELSE [ret |-> FALSE, m |-> e]

SetState(m, currentThread, newState, created) ==
    LET e == EnsureInitialized(m, created)
    IN IF e.initialized /\ (e.ownerThread = 0 \/ e.ownerThread = currentThread)
       THEN [ret |-> TRUE,
             m |-> [e EXCEPT !.previousState = e.currentState, !.currentState = newState,
                             !.isNextStateSet = FALSE]]
       ELSE [ret |-> FALSE, m |-> e]

SetNextState(m, currentThread, state, created) ==
    LET e == EnsureInitialized(m, created)
    IN IF e.initialized /\ (e.ownerThread = 0 \/ e.ownerThread = currentThread)
       THEN [ret |-> TRUE, m |-> [e EXCEPT !.nextState = state, !.isNextStateSet = TRUE]]
       ELSE [ret |-> FALSE, m |-> e]

SetRequestedState(m, currentThread, reqState, created) ==
    LET e == EnsureInitialized(m, created)
    IN IF e.initialized /\ (e.ownerThread = 0 \/ e.ownerThread = currentThread)
       THEN [ret |-> TRUE,
             m |-> [e EXCEPT !.requestedState = reqState, !.isRequestedStateSet = TRUE]]
       ELSE [ret |-> FALSE, m |-> e]

LockOwnership(m, currentThread, created) ==
    LET e == EnsureInitialized(m, created)
    IN IF e.initialized /\ e.ownerThread = 0
       THEN [ret |-> TRUE, m |-> [e EXCEPT !.ownerThread = currentThread]]
       ELSE [ret |-> FALSE, m |-> e]

UnlockOwnership(m, currentThread, created) ==
    LET e == EnsureInitialized(m, created)
    IN IF e.initialized /\ e.ownerThread = currentThread
       THEN [ret |-> TRUE, m |-> [e EXCEPT !.ownerThread = 0]]
       ELSE [ret |-> FALSE, m |-> e]

\* GetNextState(): the same in both branches of EnsureInitialized()
GetNextState(m) == IF m.isNextStateSet THEN m.nextState ELSE m.previousState

\* StepToNextState of the SlightlyAdvancedStateMachine, the test made before
\* the guard is constructed
MayStep(m, currentThread) ==
    m.isNextStateSet /\ (m.ownerThread = 0 \/ m.ownerThread = currentThread)

\* An exit that is taken for successful whatever the exit function returns
StateExitAlwaysSucceeds(exitCalled, exitResult) == TRUE

\* stateExitSuccess: the exit function is not there, or it returned true
StateExitSuccess(exitCalled, exitResult) == ~exitCalled \/ exitResult

\* An entry that is taken for successful whatever the entry function returns
StateEnteringAlwaysSucceeds(entryCalled, entryResult) == TRUE

\* stateEnteringSuccess: the entry function is not there, or it returned true
StateEnteringSuccess(entryCalled, entryResult) == ~entryCalled \/ entryResult

\* StepToNextState, from the construction of the guard on.  exitResult and
\* entryResult are what the exit and entry functions return if they are called.
StepToNextState(m, currentThread, exitResult, entryResult, created) ==
    LET exiting == [m EXCEPT !.currAction = "STATE_EXITING", !.invoked = << >>]
        leaving == StatesActions[m.currentState]
        exitCalled == leaving.exists /\ leaving.ExitFunction
        stateExitSuccess == StateExitSuccess(exitCalled, exitResult)
        set == SetState(exiting, currentThread, exiting.nextState, created).m
        entering == [set EXCEPT !.isNextStateSet = FALSE, !.currAction = "STATE_ENTERING"]
        arriving == StatesActions[entering.currentState]
        entryCalled == arriving.exists /\ arriving.EntryFunction
        stateEnteringSuccess == StateEnteringSuccess(entryCalled, entryResult)
        calls == (IF exitCalled THEN << <<"ExitFunction", exitResult>> >> ELSE << >>)
                   \o (IF stateExitSuccess /\ entryCalled
                       THEN << <<"EntryFunction", entryResult>> >> ELSE << >>)
    IN [ret |-> stateExitSuccess,
        m |-> IF ~stateExitSuccess THEN [exiting EXCEPT !.invoked = calls]
              ELSE [entering EXCEPT !.invoked = calls,
                      !.currAction = IF stateEnteringSuccess THEN "STATE_RUNNING" ELSE @]]

\* LoopCurrentState(), with entryResult what the entry function returns if called
LoopCurrentState(m, entryResult) ==
    LET actions == StatesActions[m.currentState]
        entryCalled == actions.exists /\ actions.EntryFunction
    IN IF m.currAction = "STATE_ENTERING"
       THEN [ret |-> 10,
             m |-> [m EXCEPT !.currAction = IF StateEnteringSuccess(entryCalled, entryResult)
                                           THEN "STATE_RUNNING" ELSE @,
                             !.invoked = IF entryCalled
                                         THEN << <<"EntryFunction", entryResult>> >>
                                         ELSE << >>]]
       ELSE IF m.currAction = "STATE_RUNNING" /\ actions.exists /\ actions.LoopFunction
       THEN [ret |-> LoopDelay, m |-> [m EXCEPT !.invoked = << <<"LoopFunction", TRUE>> >>]]
       ELSE IF m.currAction = "STATE_EXITING" /\ actions.exists
       THEN [ret |-> DEFAULT_LOOP_FUNCTION_STATE_EXITING_INTERVAL_MSEC,
             m |-> [m EXCEPT !.invoked = << >>]]
       ELSE [ret |-> DEFAULT_LOOP_FUNCTION_INTERVAL_MSEC, m |-> [m EXCEPT !.invoked = << >>]]

\* The runs of the other utility classes construct no monitor
NoMonitors ==
    /\ variant = "none"
    /\ now = 0
    /\ am = Unbuilt
    /\ vm = Unbuilt
    /\ fired = NotFired
    /\ streak = NoStreak
    /\ boot = 0

\* A call of the state machine by thread t that is one step: r is its outcome
SMCall(t, op, args, r) ==
    /\ threads.pc[t] = "idle"
    /\ sm' = r.m
    /\ obs' = Obs(op, r.ret, <<t>> \o args, now, {})
    /\ UNCHANGED <<boot, threads, variant, now, am, vm, fired, streak>>
    /\ UNCHANGED <<tm, limiter, filter, array, call>>

SMSetState(t, newState) ==
    \E created \in Creations(sm) :
       SMCall(t, "SetState", <<newState>>, SetState(sm, t, newState, created))

SMSetNextState(t, state) ==
    \E created \in Creations(sm) :
       SMCall(t, "SetNextState", <<state>>, SetNextState(sm, t, state, created))

SMSetRequestedState(t, reqState) ==
    \E created \in Creations(sm) :
       SMCall(t, "SetRequestedState", <<reqState>>,
              SetRequestedState(sm, t, reqState, created))

SMLockOwnership(t) ==
    \E created \in Creations(sm) :
       SMCall(t, "LockOwnership", << >>, LockOwnership(sm, t, created))

SMUnlockOwnership(t) ==
    \E created \in Creations(sm) :
       SMCall(t, "UnlockOwnership", << >>, UnlockOwnership(sm, t, created))

\* GetNextState(): the record holds the state returned as out
SMGetNextState(t) ==
    /\ threads.pc[t] = "idle"
    /\ obs.op # "GetNextState"
    /\ \E created \in Creations(sm) : sm' = EnsureInitialized(sm, created)
    /\ obs' = ObsOut("GetNextState", TRUE, GetNextState(sm), <<t>>, now, {})
    /\ UNCHANGED <<boot, threads, variant, now, am, vm, fired, streak>>
    /\ UNCHANGED <<tm, limiter, filter, array, call>>

\* StepToNextState, first step: the tests of isNextStateSet and ownerThread.
\* The record of a call that goes on has the fault "entered".
SMStepToNextStateEnter(t) ==
    /\ threads.pc[t] = "idle"
    /\ IF MayStep(sm, t)
       THEN /\ threads' = [threads EXCEPT !.pc[t] = "StepToNextState"]
            /\ obs' = Obs("StepToNextState", FALSE, <<t>>, now, {"entered"})
       ELSE /\ obs' = Obs("StepToNextState", FALSE, <<t>>, now, {})
            /\ UNCHANGED threads
    /\ sm' = [sm EXCEPT !.invoked = << >>]
    /\ UNCHANGED <<boot, variant, now, am, vm, fired, streak>>
    /\ UNCHANGED <<tm, limiter, filter, array, call>>

\* StepToNextState, second step: the guarded part and the return
SMStepToNextStateReturn(t, exitResult, entryResult) ==
    /\ threads.pc[t] = "StepToNextState"
    /\ \E created \in Creations(sm) :
          LET r == StepToNextState(sm, t, exitResult, entryResult, created)
          IN /\ sm' = r.m
             /\ obs' = Obs("StepToNextState", r.ret, <<t>>, now, {})
    /\ threads' = [threads EXCEPT !.pc[t] = "idle"]
    /\ UNCHANGED <<boot, variant, now, am, vm, fired, streak>>
    /\ UNCHANGED <<tm, limiter, filter, array, call>>

\* LoopCurrentState(): the record holds the delay returned as out
SMLoopCurrentState(t, entryResult) ==
    /\ threads.pc[t] = "idle"
    /\ LET r == LoopCurrentState(sm, entryResult)
       IN /\ sm' = r.m
          /\ obs' = ObsOut("LoopCurrentState", TRUE, r.ret, <<t>>, now, {})
    /\ UNCHANGED <<boot, threads, variant, now, am, vm, fired, streak>>
    /\ UNCHANGED <<tm, limiter, filter, array, call>>

InitM ==
    /\ NoMonitors
    /\ threads = NoThreads
    /\ obs = Obs("Init", FALSE, << >>, 0, {})
    /\ sm = SimpleStateMachine(0)
    /\ tm = Unbuilt
    /\ limiter = Unbuilt
    /\ filter = Unbuilt
    /\ array = Unbuilt
    /\ call = Unbuilt

NextM ==
    \E t \in Threads :
       \/ \E newState \in States : SMSetState(t, newState)
       \/ \E state \in States : SMSetNextState(t, state)
       \/ SMSetRequestedState(t, 1)
       \/ SMLockOwnership(t)
       \/ SMUnlockOwnership(t)
       \/ SMGetNextState(t)
       \/ SMStepToNextStateEnter(t)
       \/ \E exitResult \in BOOLEAN, entryResult \in BOOLEAN :
             SMStepToNextStateReturn(t, exitResult, entryResult)
       \/ \E entryResult \in BOOLEAN : SMLoopCurrentState(t, entryResult)

SpecM == InitM /\ [][NextM]_vars

-----------------------------------------------------------------------------
(* What the statements below speak of, for the monitor the run is made with *)

\* The stored samples, oldest first
Samples ==
    IF variant = "deque"
    THEN [i \in 1 .. Len(am.values) |->
             [value |-> am.values[i].first, timestamp |-> am.values[i].second]]
    ELSE Stored(vm.values)

ThresholdRecord ==
    IF variant = "deque" THEN am.thresholdAnomalies ELSE Stored(vm.thresholdAnomalies)

SlopeRecord ==
    IF variant = "deque" THEN am.slopeAnomalies ELSE Stored(vm.slopeAnomalies)

MinSpacing ==
    IF variant = "deque" THEN am.minTimeBetweenUpdateSampleStoringMsec
    ELSE vm.tp.MinTimeBetweenSamplesMsec

BelowThresholdMode ==
    IF variant = "deque" THEN am.checkBelowThreshold
    ELSE vm.thresholdAnomalyType = "BelowLimit"

ThresholdOf == IF variant = "deque" THEN am.threshold ELSE vm.threshold

\* The threshold rule as stated: strictly beyond the threshold
ThresholdViolation(value) ==
    IF BelowThresholdMode THEN value < ThresholdOf ELSE value > ThresholdOf

SlopeWindowOf == IF variant = "deque" THEN am.slopeTimePeriodMsec ELSE vm.tp.SlopeWindowMsec

SlopeLimitOf == IF variant = "deque" THEN am.slopeLimit ELSE vm.slopeLimit

BelowSlopeMode ==
    IF variant = "deque" THEN am.checkBelowSlopeLim ELSE vm.slopeAnomalyType = "BelowLimit"

AbsoluteSlopeMode ==
    IF variant = "deque" THEN am.useAbsoluteSlope ELSE vm.slopeType = "Absolute"

\* The slope rule as stated, for the newest sample of the store `samples`: the
\* reference is the oldest sample no older than the slope window, the slope is
\* strictly beyond the limit, and a slope over no time at all violates nothing
SlopeViolation(samples) ==
    LET newest == Back(samples)
        inWindow == SelectSeq(samples,
                        LAMBDA e : newest.timestamp - e.timestamp <= SlopeWindowOf)
        reference == Front(inWindow)
        deltaValue == newest.value - reference.value
        deltaTime == newest.timestamp - reference.timestamp
        limit == IF AbsoluteSlopeMode THEN IntAbs(SlopeLimitOf) ELSE SlopeLimitOf
        rise == IF AbsoluteSlopeMode THEN IntAbs(deltaValue) ELSE deltaValue
    IN /\ deltaTime > 0
       /\ IF BelowSlopeMode THEN rise < limit * deltaTime ELSE rise > limit * deltaTime

\* An accepted UpdateValue has just returned
Accepted == obs.op = "UpdateValue" /\ obs.ret

StrictlyIncreasing(times) == \A i \in 1 .. Len(times) - 1 : times[i] < times[i + 1]

-----------------------------------------------------------------------------
(* C1 *)

-----------------------------------------------------------------------------
(* C2 *)

\* C2: after an accepted UpdateValue whose sample does not violate the
\* threshold rule the threshold anomaly record is empty, and likewise the slope
\* anomaly record after an accepted sample that does not violate the slope rule.
C2_NonViolatingSampleClearsRecord ==
    Accepted =>
        /\ ~ThresholdViolation(obs.args[1]) => ThresholdRecord = << >>
        /\ (Samples # << >> /\ Back(Samples).timestamp = obs.t /\ ~SlopeViolation(Samples))
              => SlopeRecord = << >>

-----------------------------------------------------------------------------
(* C3 *)

\* C3: an UpdateValue called less than the minimum spacing after the newest
\* stored sample's timestamp returns false and changes nothing.
C3_ThrottledCallChangesNothing ==
    [][ (obs'.op = "UpdateValue"
           /\ Samples # << >>
           /\ Sub32(now, Back(Samples).timestamp) < MinSpacing)
        => (~obs'.ret /\ am' = am /\ vm' = vm) ]_vars

-----------------------------------------------------------------------------
(* C4 *)

\* C4: no call computes a slope by dividing by a time delta of zero.
C4_NoDivisionByZeroDelta == "zeroDiv" \notin obs.faults

-----------------------------------------------------------------------------
(* C5 *)

\* The entries of an anomaly record that outlive the call when time is t: the
\* deque variant drops those older than the anomaly duration, the ring variant
\* keeps as many of the latest as it has slots
LastN(record, n) ==
    IF Len(record) > n THEN SubSeq(record, Len(record) - n + 1, Len(record)) ELSE record

KeptThreshold(record, t) ==
    IF variant = "deque"
    THEN SelectSeq(record, LAMBDA e : t - e <= am.thresholdAnomalyDurationMsec)
    ELSE LastN(record, ThresholdAnomalyCount(vm.tp))

KeptSlope(record, t) ==
    IF variant = "deque"
    THEN SelectSeq(record, LAMBDA e : t - e <= am.slopeAnomalyDurationMsec)
    ELSE LastN(record, SlopeAnomalyCount(vm.tp))

\* C5 as stated: an accepted sample is a threshold violation exactly when its
\* value is strictly beyond the threshold, and each violating sample adds
\* exactly one entry, its own timestamp, to the threshold anomaly record.
C5_ViolationAddsOneEntry ==
    [][ (obs'.op = "UpdateValue" /\ obs'.ret)
        => (ThresholdViolation(obs'.args[1])
               <=> ThresholdRecord' = Append(ThresholdRecord, obs'.t)) ]_vars

\* C5: an accepted sample is a threshold violation exactly when its value is
\* strictly beyond the threshold (a value equal to it never is); a violating
\* sample's timestamp is appended once to the threshold anomaly record and a
\* non-violating sample empties the record, and of the record so obtained the
\* call keeps the entries no older than thresholdAnomalyDurationMsec (deque
\* variant) or the latest ThresholdAnomalyCount entries (ring variant, none
\* when ThresholdWindowMsec is 0).
C5_ViolationAppendsThenTrims ==
    [][ (obs'.op = "UpdateValue" /\ obs'.ret)
        => ThresholdRecord' =
              IF ThresholdViolation(obs'.args[1])
              THEN KeptThreshold(Append(ThresholdRecord, obs'.t), now')
              ELSE << >> ]_vars

\* Above-limit threshold 50: two accepted samples of 60 one after the other
\* have left a record of two entries
C5_Witness ==
    /\ Accepted
    /\ ~BelowThresholdMode
    /\ obs.args[1] = 60
    /\ Len(ThresholdRecord) = 2
    /\ ThresholdRecord[1] < ThresholdRecord[2]
    /\ ThresholdRecord[2] = obs.t

-----------------------------------------------------------------------------
(* C6 *)

\* The store UpdateValue classifies the sample against: in the deque variant
\* the store before Cleanup()
StoreAtClassification(newValue, t) ==
    IF variant = "deque"
    THEN LET vals == AMStore(am, newValue, t)
         IN [i \in 1 .. Len(vals) |->
                [value |-> vals[i].first, timestamp |-> vals[i].second]]
    ELSE Stored(RingAppend(vm.values, TimestampedVariable(newValue, t)))

\* C6: on every accepted UpdateValue after the first the slope rule is
\* evaluated against the oldest stored sample within the slope window; the
\* sample is a slope violation exactly when the slope is strictly beyond the
\* limit (absolute value in Absolute mode), and then its timestamp is appended
\* to the slope anomaly record.
C6_SlopeRuleOnEveryAcceptedSample ==
    [][ (obs'.op = "UpdateValue" /\ obs'.ret /\ Samples # << >>)
        => IF SlopeViolation(StoreAtClassification(obs'.args[1], obs'.t))
           THEN SlopeRecord' = KeptSlope(Append(SlopeRecord, obs'.t), now')
           ELSE SlopeRecord' # Append(SlopeRecord, obs'.t) ]_vars

-----------------------------------------------------------------------------
(* C7 *)

\* C7: CheckThreshold() and CheckSlope() are edge-triggered: a call that
\* returns true leaves the corresponding anomaly record empty, a call that
\* returns false leaves it unchanged, and after a call that returned true
\* there is no second true without an accepted UpdateValue in between.
C7_ChecksAreEdgeTriggered ==
    [][ /\ obs'.op = "CheckThreshold"
           => /\ ThresholdRecord' = IF obs'.ret THEN << >> ELSE ThresholdRecord
              /\ fired.thr => ~obs'.ret
        /\ obs'.op = "CheckSlope"
           => /\ SlopeRecord' = IF obs'.ret THEN << >> ELSE SlopeRecord
              /\ fired.slp => ~obs'.ret ]_vars

\* CheckThreshold() has returned true and, with no accepted sample since, the
\* call just made returned false
C7_Witness ==
    /\ obs.op = "CheckThreshold"
    /\ ~obs.ret
    /\ fired.thr
    /\ streak.thr # NoTime

-----------------------------------------------------------------------------
(* C8 *)

DurationOf(kind) ==
    IF variant = "deque"
    THEN IF kind = "thr" THEN am.thresholdAnomalyDurationMsec
         ELSE am.slopeAnomalyDurationMsec
    ELSE IF kind = "thr" THEN vm.tp.ThresholdWindowMsec ELSE vm.tp.SlopeWindowMsec

\* C8: when every accepted sample since some time has violated the rule and
\* that run of samples is at least the anomaly duration old, CheckThreshold()
\* (CheckSlope() for the slope rule) returns true.
C8_PersistentViolationIsReported ==
    /\ (obs.op = "CheckThreshold" /\ streak.thr # NoTime /\ ~fired.thr
          /\ obs.t - streak.thr >= DurationOf("thr")) => obs.ret
    /\ (obs.op = "CheckSlope" /\ streak.slp # NoTime /\ ~fired.slp
          /\ obs.t - streak.slp >= DurationOf("slp")) => obs.ret

-----------------------------------------------------------------------------
(* C9 *)

\* The end of a query's window: the time of the call, or the newest sample's
\* timestamp
WindowEnd(useCurrentTime) ==
    IF useCurrentTime \/ Samples = << >> THEN obs.t ELSE Back(Samples).timestamp

\* The stored samples with timestamp in [end - durationMsec, end]
Window(durationMsec, useCurrentTime) ==
    {i \in 1 .. Len(Samples) :
        /\ WindowEnd(useCurrentTime) - durationMsec <= Samples[i].timestamp
        /\ Samples[i].timestamp <= WindowEnd(useCurrentTime)}

\* The stored data spans at least durationMsec
SpansDuration(durationMsec) ==
    /\ Samples # << >>
    /\ Back(Samples).timestamp - Front(Samples).timestamp >= durationMsec

\* C9: CheckIfValueConsistently returns true if and only if every stored
\* sample of the window [end - durationMsec, end] is strictly below
\* thresholdValue (checkBelow) or strictly above it, the window holds at least
\* minDataPoints samples, and the stored data spans at least durationMsec.
C9_ConsistentlyIffAllThree ==
    obs.op = "CheckIfValueConsistently" =>
        LET checkBelow == obs.args[1]
            thresholdValue == obs.args[2]
            durationMsec == obs.args[3]
            useCurrentTime == obs.args[4]
            minDataPoints == obs.args[5]
            window == Window(durationMsec, useCurrentTime)
        IN obs.ret <=>
              /\ \A i \in window :
                    IF checkBelow THEN Samples[i].value < thresholdValue
                    ELSE Samples[i].value > thresholdValue
              /\ Cardinality(window) >= minDataPoints
              /\ SpansDuration(durationMsec)

-----------------------------------------------------------------------------
(* C10 *)

\* A query whose window, count and span conditions are met by a window of at
\* least one sample, so that the per-sample test decides what it returns
PerSampleTestDecides ==
    /\ obs.args[4]
    /\ Window(obs.args[3], obs.args[4]) # {}
    /\ Cardinality(Window(obs.args[3], obs.args[4])) >= obs.args[5]
    /\ SpansDuration(obs.args[3])

\* C10: a sample passes the test of CheckIfValueBetweenBoundConsistently
\* exactly when lower < value < upper and the test of
\* CheckIfValueOutOfBoundConsistently exactly when value <= lower or
\* value >= upper, so that every sample passes exactly one of the two.
C10_BetweenAndOutOfBoundAreComplementary ==
    /\ (obs.op = "CheckIfValueBetweenBoundConsistently" /\ PerSampleTestDecides)
          => (obs.ret <=> \A i \in Window(obs.args[3], obs.args[4]) :
                              obs.args[1] < Samples[i].value
                                 /\ Samples[i].value < obs.args[2])
    /\ (obs.op = "CheckIfValueOutOfBoundConsistently" /\ PerSampleTestDecides)
          => (obs.ret <=> \A i \in Window(obs.args[3], obs.args[4]) :
                              Samples[i].value <= obs.args[1]
                                 \/ Samples[i].value >= obs.args[2])

-----------------------------------------------------------------------------
(* C11 *)

\* The two-point slope over the range [end - deltaTimeMsec, end]: from the
\* oldest stored sample at or after the start of the range to the newest
\* stored sample at or before its end.  defined is false when there is no
\* such pair of samples with different timestamps.
TwoPointSlope(deltaTimeMsec, useCurrentTime) ==
    LET end == WindowEnd(useCurrentTime)
        atOrAfter == {i \in 1 .. Len(Samples) : Samples[i].timestamp >= end - deltaTimeMsec}
        atOrBefore == {i \in 1 .. Len(Samples) : Samples[i].timestamp <= end}
        old == CHOOSE i \in atOrAfter : \A j \in atOrAfter : i <= j
        new == CHOOSE i \in atOrBefore : \A j \in atOrBefore : i >= j
    IN IF atOrAfter = {} \/ atOrBefore = {}
       THEN [defined |-> FALSE, rise |-> 0, run |-> 0]
       ELSE [defined |-> Samples[new].timestamp > Samples[old].timestamp,
             rise |-> Samples[new].value - Samples[old].value,
             run |-> Samples[new].timestamp - Samples[old].timestamp]

\* The double x equals rise / run
IsQuotient(x, rise, run) == x.d # 0 /\ x.n * run = rise * x.d

\* C11: whenever GetSimpleSlopeOverDeltaTime returns true, slope equals
\* (vNew - vOld) / (tNew - tOld) for the oldest stored sample at or after
\* end - deltaTimeMsec and the newest stored sample at or before end; and with
\* two stored samples exactly deltaTimeMsec apart and useCurrentTime false it
\* returns true (the scenario 10@0, 20@100, deltaTimeMsec 100, slope 0.1).
C11_SimpleSlopeIsTwoPointSlope ==
    obs.op = "GetSimpleSlopeOverDeltaTime" =>
        LET s == TwoPointSlope(obs.args[1], obs.args[2])
        IN /\ obs.ret => (s.defined /\ IsQuotient(obs.out, s.rise, s.run))
           /\ (~obs.args[2] /\ Len(Samples) = 2
                 /\ Samples[2].timestamp - Samples[1].timestamp = obs.args[1])
              => obs.ret

-----------------------------------------------------------------------------
(* C12 *)

\* C12: GetSimpleSlopeOverDeltaTime returns false whenever the range
\* [end - deltaTimeMsec, end] holds fewer than two stored samples with
\* distinct timestamps, in particular when exactly one stored sample lies in
\* it, whether the range ends at that sample's time or at a later current time.
C12_SlopeNeedsTwoSamplesInRange ==
    (obs.op = "GetSimpleSlopeOverDeltaTime"
       /\ Cardinality({Samples[i].timestamp : i \in Window(obs.args[1], obs.args[2])}) < 2)
    => ~obs.ret

-----------------------------------------------------------------------------
(* C13 *)

\* The sum of the values of the stored samples at the positions idx
RECURSIVE SumOfSamples(_)
SumOfSamples(idx) ==
    IF idx = {} THEN 0
    ELSE LET i == CHOOSE k \in idx : TRUE
         IN Samples[i].value + SumOfSamples(idx \ {i})

\* C13: GetAverageValue returns true only if the window [end - durationMsec,
\* end] holds at least minDataPoints stored samples and the stored data spans
\* at least durationMsec; and when it returns true, avg is the arithmetic mean
\* (in the sample type) of exactly the stored samples of that window.
C13_AverageIsMeanOfWindow ==
    (obs.op = "GetAverageValue" /\ obs.ret) =>
        LET window == Window(obs.args[1], obs.args[2])
        IN /\ Cardinality(window) >= obs.args[3]
           /\ SpansDuration(obs.args[1])
           /\ window # {}
           /\ obs.out = Div(SumOfSamples(window) \div Cardinality(window), 1)

-----------------------------------------------------------------------------
(* C14 *)

\* C14: GetAverageValue reports insufficient data as a false return and never
\* as a fault: whatever the store, the time, durationMsec and minDataPoints
\* (0 included), it never divides by a sample count of zero.
C14_AverageNeverDividesByZeroCount ==
    obs.op = "GetAverageValue" => "zeroCount" \notin obs.faults

-----------------------------------------------------------------------------
(* C15 *)

\* C15: with an empty sample store every query (the consistency queries,
\* GetAverageValue, GetAverageSchemeValue, GetSimpleSlopeOverDeltaTime,
\* GetAdvancedSlopeOverDeltaTime, GetMaxValue, GetMinValue, CheckThreshold,
\* CheckSlope) returns false, GetLastValue returns the default value 0, no
\* stored element is read and the monitor's state does not change.
C15_EmptyStoreQueriesReturnFalse ==
    [][ (obs'.op \in PureOps \cup {"CheckThreshold", "CheckSlope"} /\ Samples = << >>)
        => /\ ~obs'.ret
           /\ obs'.op = "GetLastValue" => obs'.out = Div(0, 1)
           /\ obs'.faults = {}
           /\ am' = am
           /\ vm' = vm ]_vars

-----------------------------------------------------------------------------
(* C16 *)

\* C16: after CleanupAll() on the VariableAnomalyMonitor, or Erase() on the
\* VariableMonitor, the sample store and both anomaly records are empty,
\* whatever they held and whatever the current time.
C16_CleanupAllEmptiesEverything ==
    obs.op \in {"CleanupAll", "Erase"}
    => (Samples = << >> /\ ThresholdRecord = << >> /\ SlopeRecord = << >>)

-----------------------------------------------------------------------------
(* C17 *)

\* The age of a timestamp on the 32-bit clock
Age(timestamp) == Sub32(now, timestamp)

\* C17: immediately after every accepted UpdateValue on VariableAnomalyMonitor
\* every remaining sample is at most max(slopeTimePeriodMsec,
\* thresholdTimePeriodMsec) old, every remaining threshold anomaly entry at most
\* thresholdAnomalyDurationMsec old and every remaining slope anomaly entry at
\* most slopeAnomalyDurationMsec old.
C17_AcceptedUpdateLeavesOnlyRecentEntries ==
    (Accepted /\ variant = "deque") =>
       /\ \A i \in 1 .. Len(am.values) :
             Age(am.values[i].second)
                <= Max(am.slopeTimePeriodMsec, am.thresholdTimePeriodMsec)
       /\ \A i \in 1 .. Len(am.thresholdAnomalies) :
             Age(am.thresholdAnomalies[i]) <= am.thresholdAnomalyDurationMsec
       /\ \A i \in 1 .. Len(am.slopeAnomalies) :
             Age(am.slopeAnomalies[i]) <= am.slopeAnomalyDurationMsec

\* An accepted UpdateValue whose Cleanup() ran later than the first sample
\* ever taken could be kept, and left a sample and a threshold anomaly entry
\* that are exactly as old as their limits
C17_Witness ==
    /\ variant = "deque"
    /\ Accepted
    /\ Len(am.values) >= 2
    /\ Age(Front(am.values).second)
          = Max(am.slopeTimePeriodMsec, am.thresholdTimePeriodMsec)
    /\ Front(am.values).second > 0
    /\ am.thresholdAnomalies # << >>
    /\ Age(Front(am.thresholdAnomalies)) = am.thresholdAnomalyDurationMsec

-----------------------------------------------------------------------------
(* C18 *)

\* The monitor with every stored timestamp counted from the start of the run
Unwrapped(m) ==
    [m EXCEPT
       !.values = [i \in 1 .. Len(m.values) |->
                      [m.values[i] EXCEPT !.second = Elapsed(@)]],
       !.thresholdAnomalies = [i \in 1 .. Len(@) |-> Elapsed(@[i])],
       !.slopeAnomalies = [i \in 1 .. Len(@) |-> Elapsed(@[i])]]

\* A sample offered to a non-empty store is accepted exactly when the modular
\* difference between the clock and the newest stored timestamp is at least
\* the minimum spacing
SpacingIsModular ==
    (obs'.op = "UpdateValue" /\ Samples # << >>) =>
       (obs'.ret <=> Sub32(obs'.t, Back(Samples).timestamp) >= MinSpacing)

\* CheckIfValueConsistently answers as it does on the same samples with the
\* timestamps and the clock counted from the start of the run
WindowTestIgnoresWrap ==
    (obs'.op = "CheckIfValueConsistently" /\ variant = "deque") =>
       obs'.ret = AMCheckIfValueConsistently(Unwrapped(am), obs'.args[1],
                      obs'.args[2], obs'.args[3], obs'.args[4], obs'.args[5],
                      Elapsed(now))

\* The anomaly duration test of CheckThreshold answers as it does with the
\* timestamps and the clock counted from the start of the run
AgeTestIgnoresWrap ==
    (obs'.op = "CheckThreshold" /\ variant = "deque") =>
       obs'.ret = CheckThreshold(Unwrapped(am), Elapsed(now)).ret

\* C18: the duration and spacing decisions are the same across the wrap of the
\* 32-bit millisecond clock: a sample arriving after the wrap is accepted
\* exactly when (now - newest stored timestamp) mod 2^32 is at least the
\* minimum spacing, and the window-membership and age tests answer as they
\* would without the wrap.
C18_DecisionsSurviveClockWrap ==
    [][SpacingIsModular /\ WindowTestIgnoresWrap /\ AgeTestIgnoresWrap]_vars

-----------------------------------------------------------------------------
(* C19 *)

\* C19: concurrent calls are serialised by two locks: a configuration setter
\* holds configMutex whenever it writes a configuration field, and a thread
\* holds the data mutex for the whole time it is inside UpdateValue mutating
\* the store and the anomaly records, so that two threads are never inside
\* UpdateValue together.
C19_CallsAreSerialisedByTwoLocks ==
    /\ "noLock" \notin obs.faults
    /\ \A t \in Threads : InUpdateValue(t) => threads.mutex = t
    /\ \A t, u \in Threads : (InUpdateValue(t) /\ InUpdateValue(u)) => t = u

-----------------------------------------------------------------------------
(* C20 *)

\* The sample an UpdateValue call has just offered
Offered == TimestampedVariable(obs'.args[1], obs'.t)

\* C20: in the ring-backed VariableMonitor an accepted UpdateValue on a full
\* store overwrites exactly the oldest sample: the store then holds the most
\* recent min(k, N) accepted samples in insertion order, N being
\* floor(SampleWindowMsec / MinTimeBetweenSamplesMsec) + 1, and every sample
\* whose timestamp is within SampleWindowMsec of the newest is still stored.
C20_FullStoreOverwritesOldestOnly ==
    [][(variant = "ring" /\ obs'.op = "UpdateValue" /\ obs'.ret) =>
          /\ Stored(vm'.values)
                = LastN(Append(Stored(vm.values), Offered), ValueCount(vm.tp))
          /\ \A i \in 1 .. Len(Stored(vm.values)) :
                Sub32(Offered.timestamp, Stored(vm.values)[i].timestamp)
                      <= vm.tp.SampleWindowMsec
                   => \E j \in 1 .. Len(Stored(vm'.values)) :
                         Stored(vm'.values)[j] = Stored(vm.values)[i]]_vars

-----------------------------------------------------------------------------
(* C21 *)

\* The number of the timestamps of record that are within windowMsec of the clock
WithinWindow(times, windowMsec) ==
    Cardinality({i \in 1 .. Len(times) : Sub32(now, times[i]) <= windowMsec})

\* C21: in VariableMonitor GetValueCount() returns the number of stored
\* samples whose timestamps lie within SampleWindowMsec of the current time,
\* and GetThresholdAnomalyCount() / GetSlopeAnomalyCount() the number of
\* entries of the threshold / slope anomaly record within ThresholdWindowMsec /
\* SlopeWindowMsec of the current time, whether the ring buffer is partially
\* filled or full.
C21_CountsAreEntriesWithinWindow ==
    /\ obs.op = "GetValueCount" =>
          obs.out = Div(WithinWindow([i \in 1 .. Len(Samples) |-> Samples[i].timestamp],
                                     vm.tp.SampleWindowMsec), 1)
    /\ obs.op = "GetThresholdAnomalyCount" =>
          obs.out = Div(WithinWindow(ThresholdRecord, vm.tp.ThresholdWindowMsec), 1)
    /\ obs.op = "GetSlopeAnomalyCount" =>
          obs.out = Div(WithinWindow(SlopeRecord, vm.tp.SlopeWindowMsec), 1)

-----------------------------------------------------------------------------
(* C22 *)

\* What stands for the end iterator among the entries
NoEntry == TimestampedVariable(0, NoTime)

\* The entry a lookup returned: the element its iterator points to, NoEntry
\* for the end iterator
Returned == IF obs.out.n = EndIndex THEN NoEntry ELSE vm.values.buffer[obs.out.n]

\* The positions in Samples of the samples at or after, at or before, a time
AtOrAfter(timestampMsec) ==
    {i \in 1 .. Len(Samples) : Samples[i].timestamp >= timestampMsec}

AtOrBefore(timestampMsec) ==
    {i \in 1 .. Len(Samples) : Samples[i].timestamp <= timestampMsec}

\* C22: GetOldestEntry(T) returns the oldest stored entry whose timestamp is
\* >= T and GetNewestEntry(T) the newest stored entry whose timestamp is <= T;
\* each returns the end iterator when the store is empty or no stored entry
\* satisfies the bound.
C22_EntryLookupsFindTheBoundingEntry ==
    /\ obs.op = "GetOldestEntry" =>
          Returned = IF AtOrAfter(obs.args[1]) = {} THEN NoEntry
                     ELSE Samples[CHOOSE i \in AtOrAfter(obs.args[1]) :
                                     \A j \in AtOrAfter(obs.args[1]) : i <= j]
    /\ obs.op = "GetNewestEntry" =>
          Returned = IF AtOrBefore(obs.args[1]) = {} THEN NoEntry
                     ELSE Samples[CHOOSE i \in AtOrBefore(obs.args[1]) :
                                     \A j \in AtOrBefore(obs.args[1]) : i >= j]

-----------------------------------------------------------------------------
(* C23 *)

\* C23: an accepted UpdateValue(v) made at time t, followed at once by the
\* lookup of the newest entry at or before t (GetNewestEntry(t) in
\* VariableMonitor, the back of the deque in VariableAnomalyMonitor), yields an
\* entry with value v and timestamp t, for every capacity and fill level.
C23_LookupAfterUpdateFindsTheSample ==
    Accepted =>
       IF variant = "ring"
       THEN LET valueIterator == GetNewestEntry(vm.values, obs.t)
            IN /\ valueIterator # EndIndex
               /\ vm.values.buffer[valueIterator]
                     = TimestampedVariable(obs.args[1], obs.t)
       ELSE /\ am.values # << >>
            /\ Back(am.values) = [first |-> obs.args[1], second |-> obs.t]

-----------------------------------------------------------------------------
(* C24 *)

Reversed(seq) == [i \in 1 .. Len(seq) |-> seq[Len(seq) + 1 - i]]

\* Both iterations over one ring buffer that holds an element
IteratesOverAll(rb) ==
    GetCount(rb) >= 1 =>
       /\ Visited(rb, rbegin(rb), FALSE) = Reversed(Stored(rb))
       /\ Visited(rb, begin(rb), TRUE) = Stored(rb)

\* C24: for a RingBuffer holding k >= 1 elements (any capacity, any head and
\* tail, full or not) the iteration from rbegin() by -- until rend() visits
\* exactly the k stored elements once each from newest to oldest, and the
\* iteration from begin() by ++ until end() visits the same k elements once
\* each from oldest to newest.
C24_IterationVisitsEveryElementOnce ==
    /\ IteratesOverAll(vm.values)
    /\ IteratesOverAll(vm.thresholdAnomalies)
    /\ IteratesOverAll(vm.slopeAnomalies)

-----------------------------------------------------------------------------
(* C25 *)

\* The useCurrentTime argument of the windowed query just made
UseCurrentTimeArg ==
    IF obs.op = "GetSimpleSlopeOverDeltaTime" THEN obs.args[2] ELSE obs.args[4]

\* C25: a windowed query of the ring-backed VariableMonitor
\* (CheckIfValueConsistently, CheckIfValueBetweenBoundConsistently,
\* CheckIfValueOutOfBoundConsistently, GetSimpleSlopeOverDeltaTime) called with
\* useCurrentTime = false on a non-empty store takes the timestamp of the
\* newest stored sample for the end of its window, and reads no ring element
\* but stored ones, at indices below the capacity.
C25_StoredWindowEndIsNewestSample ==
    (/\ variant = "ring"
     /\ obs.op \in QueryOps \cup {"GetSimpleSlopeOverDeltaTime"}
     /\ ~UseCurrentTimeArg
     /\ Samples # << >>) => "oob" \notin obs.faults

-----------------------------------------------------------------------------
(* C26 *)

\* C26: a windowed query (CheckIfValueConsistently,
\* CheckIfValueBetweenBoundConsistently, CheckIfValueOutOfBoundConsistently,
\* GetAverageValue, GetSimpleSlopeOverDeltaTime, GetAdvancedSlopeOverDeltaTime,
\* GetMaxValue, GetMinValue, GetLastValue) called twice in succession with the
\* same arguments and no UpdateValue in between returns the same boolean
\* result and the same output value both times.
C26_QueryTwiceGivesTheSame ==
    [][(/\ obs.op = "KeepResult"
        /\ obs'.op = obs.args[1]
        /\ obs'.args = obs.args[2]
        /\ obs'.op # "GetAverageSchemeValue")
         => (obs'.ret = obs.ret /\ obs'.out = obs.out)]_vars

-----------------------------------------------------------------------------
(* C27 *)

\* The number of samples CheckIfValueConsistently of the deque variant walks
\* over with the clock as the end of its window: none when the stored data do
\* not span durationMsec, the samples from startTime on otherwise
AMConsidered(m, durationMsec, endTime) ==
    IF m.values = << >> THEN 0
    ELSE IF Sub32(Back(m.values).second, Front(m.values).second) < durationMsec THEN 0
    ELSE Cardinality(AMVisited(m.values, Sub32(endTime, durationMsec)))

\* The same of the ring variant: the elements its loop passes from the entry
\* GetOldestEntry gives for startTimeMsec up to the one GetNewestEntry gives
\* for endTimeMsec
VMConsidered(m, durationMsec, endTimeMsec) ==
    IF GetCount(m.values) = 0 \/ GetNewestEntry(m.values, endTimeMsec) = EndIndex THEN 0
    ELSE LET path == VMPath(m.values,
                            GetOldestEntry(m.values, Sub32(endTimeMsec, durationMsec)),
                            GetNewestEntry(m.values, endTimeMsec))
         IN Cardinality({i \in 1 .. Len(path) : path[i] # EndIndex})

Considered(durationMsec) ==
    IF variant = "deque" THEN AMConsidered(am, durationMsec, Elapsed(now))
    ELSE VMConsidered(vm, durationMsec, Elapsed(now))

\* C27: with the store and the current time fixed, a longer durationMsec never
\* makes a windowed query consider fewer samples: after a
\* CheckIfValueConsistently on the current time with some durationMsec, no
\* shorter duration would have had more samples in its window, and this also
\* when durationMsec is larger than the end time.
C27_LongerWindowConsidersNoFewer ==
    (/\ obs.op = "CheckIfValueConsistently"
     /\ obs.args[4])
        => \A shorter \in 0 .. obs.args[3] : Considered(shorter) <= Considered(obs.args[3])

-----------------------------------------------------------------------------
(* C28 *)

\* The most samples a deque monitor with the configuration of m can hold
AMStoreBound(m) ==
    (Max(m.slopeTimePeriodMsec, m.thresholdTimePeriodMsec)
        \div m.minTimeBetweenUpdateSampleStoringMsec) + 1

\* C28: the number of stored samples never exceeds
\* floor(max(slopeTimePeriodMsec, thresholdTimePeriodMsec) / minSpacing) + 1
\* in a VariableAnomalyMonitor whose minimum spacing is at least 1, and never
\* exceeds N = floor(SampleWindowMsec / MinTimeBetweenSamplesMsec) + 1 in a
\* VariableMonitor.
C28_StoredSampleCountIsBounded ==
    /\ (variant = "deque" /\ am.minTimeBetweenUpdateSampleStoringMsec >= 1)
          => Len(am.values) <= AMStoreBound(am)
    /\ variant = "ring" => GetCount(vm.values) <= ValueCount(vm.tp)

\* An accepted UpdateValue left the deque holding exactly as many samples as
\* the bound allows, after Cleanup() had dropped the oldest ones
C28_Witness ==
    /\ variant = "deque"
    /\ Accepted
    /\ am.minTimeBetweenUpdateSampleStoringMsec >= 1
    /\ Len(am.values) = AMStoreBound(am)
    /\ Len(am.values) >= 2
    /\ Front(am.values).second > 0

-----------------------------------------------------------------------------
(* C29 *)

\* C29: when acquiring the configuration lock fails or times out inside a
\* setter (SetThreshold, SetSlopeLimit, SetCheckBelowThreshold,
\* SetThresholdAnomalyDurationMsec, UseAbsoluteSlope), the setter leaves the
\* configuration as it was and reports a failure.  A void return is taken
\* here for a report of failure, which favours the statement.
C29_FailedLockLeavesConfigurationUnchanged ==
    [][(obs'.op \in GuardedSetters /\ "lockFailed" \in obs'.faults)
         => (am' = am /\ obs'.ret = FALSE)]_vars

-----------------------------------------------------------------------------
(* C30 *)

\* C30: whenever the slope over the window is computable,
\* CheckIfSlope(checkBelow, slopeThresh, useAbsolute, deltaTimeMsec,
\* useCurrentTime) returns true exactly when the slope is below slopeThresh
\* (checkBelow) or above it (otherwise), with the absolute values of both
\* when useAbsolute is set, in both variants.
C30_CheckIfSlopeComparesAsAsked ==
    (obs.op = "CheckIfSlope" /\ obs.out.d # 0) =>
        LET slope == IF obs.args[3] THEN fabs(obs.out) ELSE obs.out
            thresh == IF obs.args[3] THEN IntAbs(obs.args[2]) ELSE obs.args[2]
        IN obs.ret = (IF obs.args[1] THEN Less(slope, thresh) ELSE Greater(slope, thresh))

-----------------------------------------------------------------------------
(* C31 *)

\* C31: GetNextState() returns the pending next state when one has been set
\* with SetNextState and has not been consumed or invalidated since, and the
\* current state otherwise.
C31_GetNextStateIsPendingOrCurrent ==
    obs.op = "GetNextState" =>
        obs.out = (IF sm.isNextStateSet THEN sm.nextState ELSE sm.currentState)

-----------------------------------------------------------------------------
(* C32 *)

\* The calls of the state machine that change it, and the ownership calls
OwnedOps ==
    { "SetState", "SetNextState", "SetRequestedState", "StepToNextState",
      "LockOwnership", "UnlockOwnership" }

\* The step is the first of one of these calls, made by a thread other than
\* the one that holds the ownership
MadeByStranger ==
    /\ sm.ownerThread # 0
    /\ obs'.op \in OwnedOps
    /\ obs'.args[1] # sm.ownerThread
    /\ threads.pc[obs'.args[1]] = "idle"

\* C32: while a thread holds the ownership of the state machine, every
\* SetState, SetNextState, SetRequestedState and StepToNextState call made by
\* another thread returns false and leaves currentState, previousState,
\* nextState and requestedState as they were, and every LockOwnership and
\* UnlockOwnership call made by another thread returns false and leaves the
\* owner as it was.
C32_OnlyTheOwnerChangesTheMachine ==
    [][MadeByStranger =>
          /\ obs'.ret = FALSE
          /\ "entered" \notin obs'.faults
          /\ sm'.currentState = sm.currentState
          /\ sm'.previousState = sm.previousState
          /\ sm'.nextState = sm.nextState
          /\ sm'.requestedState = sm.requestedState
          /\ sm'.ownerThread = sm.ownerThread]_vars

\* A thread that does not hold the ownership asked for a state other than the
\* current one while another thread held it, with the mutex created, and was
\* refused
C32_Witness ==
    /\ obs.op = "SetState"
    /\ ~obs.ret
    /\ sm.initialized
    /\ sm.ownerThread # 0
    /\ obs.args[1] # sm.ownerThread
    /\ obs.args[2] # sm.currentState

-----------------------------------------------------------------------------
(* C37 *)

\* The step is the guarded part of a StepToNextState call
StepReturns == \E t \in Threads : threads.pc[t] = "StepToNextState" /\ threads'.pc[t] = "idle"

\* The names of the state functions the step ran
Ran(m) == {m.invoked[i][1] : i \in 1 .. Len(m.invoked)}

\* C37: StepToNextState changes the current state only after the exit function
\* registered for it has returned true in that call, or when none is
\* registered.  When the exit function returns false the call returns false,
\* currentState and previousState are unchanged, the pending next state stays
\* set and the current action is STATE_EXITING, in which LoopCurrentState
\* does not run the loop function of the state.
C37_StateIsLeftOnlyAfterExit ==
    [][/\ (StepReturns /\ sm'.currentState # sm.currentState)
             => \/ ~StatesActions[sm.currentState].ExitFunction
                \/ sm'.invoked[1] = <<"ExitFunction", TRUE>>
       /\ (StepReturns /\ sm'.invoked # << >> /\ sm'.invoked[1] = <<"ExitFunction", FALSE>>)
             => /\ obs'.ret = FALSE
                /\ sm'.currentState = sm.currentState
                /\ sm'.previousState = sm.previousState
                /\ sm'.isNextStateSet = sm.isNextStateSet
                /\ sm'.nextState = sm.nextState
                /\ sm'.currAction = "STATE_EXITING"
       /\ (obs'.op = "LoopCurrentState" /\ sm.currAction = "STATE_EXITING")
             => "LoopFunction" \notin Ran(sm')]_vars

\* A StepToNextState call whose exit function returned false, with a next
\* state other than the current one still pending
C37_Witness ==
    /\ obs.op = "StepToNextState"
    /\ sm.invoked = << <<"ExitFunction", FALSE>> >>
    /\ sm.isNextStateSet
    /\ sm.nextState # sm.currentState
    /\ sm.currAction = "STATE_EXITING"

-----------------------------------------------------------------------------
(* C38 *)

\* The step ran the entry function and it returned false
EntryFailed(m) == m.invoked # << >> /\ m.invoked[Len(m.invoked)] = <<"EntryFunction", FALSE>>

\* C38: when StepToNextState has moved the machine into a state whose entry
\* function returned false, the current action stays STATE_ENTERING; a
\* LoopCurrentState call made in STATE_ENTERING runs the entry function of the
\* state and not its loop function, and returns 10; the loop function runs
\* only in STATE_RUNNING, which is left STATE_ENTERING for only when an entry
\* call has returned true (or the state has no entry function).
C38_FailedEntryIsRetriedBeforeLooping ==
    [][/\ (StepReturns /\ obs'.ret /\ EntryFailed(sm'))
             => sm'.currAction = "STATE_ENTERING"
       /\ (obs'.op = "LoopCurrentState" /\ sm.currAction = "STATE_ENTERING")
             => /\ obs'.out = 10
                /\ "LoopFunction" \notin Ran(sm')
                /\ StatesActions[sm.currentState].EntryFunction
                      => Ran(sm') = {"EntryFunction"}
                /\ EntryFailed(sm') => sm'.currAction = "STATE_ENTERING"
       /\ "LoopFunction" \in Ran(sm') => sm.currAction = "STATE_RUNNING"
       /\ (sm.currAction = "STATE_ENTERING" /\ sm'.currAction = "STATE_RUNNING")
             => \/ ~StatesActions[sm'.currentState].EntryFunction
                \/ sm'.invoked[Len(sm'.invoked)] = <<"EntryFunction", TRUE>>]_vars

\* A LoopCurrentState call that found the machine in STATE_ENTERING after a
\* step, ran the entry function again, and was refused again
C38_Witness ==
    /\ obs.op = "LoopCurrentState"
    /\ obs.out = 10
    /\ sm.invoked = << <<"EntryFunction", FALSE>> >>
    /\ sm.currAction = "STATE_ENTERING"
    /\ sm.previousState # sm.currentState

-----------------------------------------------------------------------------
(* TestManager<EnumType, MaxEnumVal>.  A test is known by whether AddTest
   installed it (the constructor's test always passes) and by its
   continueOnFail; what an installed test returns is an input of the call that
   runs it.  The fields ran, range and invoked are not the program's: ran lists
   the tests Step has run since the last Start that returned true, range is
   what that Start was given, invoked lists the functions the last call ran. *)

MaxEnumVal == 2

MaxTests == MaxEnumVal + 1

TestTypes == 0 .. MaxEnumVal

\* The constructor's test of a slot
DefaultTest == [added |-> FALSE, continueOnFail |-> TRUE]

\* The constructor
TestManager ==
    [ class |-> "TestManager",
      tests_ |-> [testType \in TestTypes |-> DefaultTest],
      afterTestHook_ |-> FALSE,
      currentIndex_ |-> 0 - 1,
      endIndex_ |-> 0 - 1,
      running_ |-> FALSE,
      ran |-> << >>,
      range |-> << >>,
      invoked |-> << >> ]

\* What the test of a slot returns when it is run: result is what an
\* installed test function returns
TestResult(m, index, result) == ~m.tests_[index].added \/ result

\* The calls of running the test of a slot: the test, then the hook if one is set
TestCalls(m, index, result) ==
    << <<"test", index, TestResult(m, index, result)>> >>
      \o (IF m.afterTestHook_
          THEN << <<"afterTestHook_", index, TestResult(m, index, result)>> >>
          ELSE << >>)

AddTest(m, testType, continueOnFail) ==
    [m EXCEPT !.tests_[testType] = [added |-> TRUE, continueOnFail |-> continueOnFail],
              !.invoked = << >>]

SetAfterTestHook(m, hook) == [m EXCEPT !.afterTestHook_ = hook, !.invoked = << >>]

Start(m, start, end) ==
    IF start > end \/ end >= MaxTests
    THEN [ret |-> FALSE, m |-> [m EXCEPT !.invoked = << >>]]
    ELSE [ret |-> TRUE,
          m |-> [m EXCEPT !.currentIndex_ = start,
                          !.endIndex_ = end,
                          !.running_ = TRUE,
                          !.ran = << >>,
                          !.range = <<start, end>>,
                          !.invoked = << >>]]

\* A Step that leaves currentIndex_ where it is
StepInPlace(m, result) ==
    IF ~m.running_ \/ m.currentIndex_ > m.endIndex_
    THEN [ret |-> FALSE, m |-> [m EXCEPT !.invoked = << >>]]
    ELSE LET testResult == TestResult(m, m.currentIndex_, result)
             ranIt == [m EXCEPT !.ran = Append(@, m.currentIndex_),
                                !.invoked = TestCalls(m, m.currentIndex_, result)]
         IN IF ~testResult /\ ~m.tests_[m.currentIndex_].continueOnFail
            THEN [ret |-> FALSE, m |-> [ranIt EXCEPT !.running_ = FALSE]]
            ELSE [ret |-> TRUE, m |-> ranIt]

Step(m, result) ==
    IF ~m.running_ \/ m.currentIndex_ > m.endIndex_
    THEN [ret |-> FALSE, m |-> [m EXCEPT !.invoked = << >>]]
    ELSE LET testResult == TestResult(m, m.currentIndex_, result)
             ranIt == [m EXCEPT !.ran = Append(@, m.currentIndex_),
                                !.invoked = TestCalls(m, m.currentIndex_, result)]
         IN IF ~testResult /\ ~m.tests_[m.currentIndex_].continueOnFail
            THEN [ret |-> FALSE, m |-> [ranIt EXCEPT !.running_ = FALSE]]
            ELSE [ret |-> TRUE,
                  m |-> [ranIt EXCEPT !.currentIndex_ = @ + 1,
                                      !.running_ = m.currentIndex_ + 1 <= m.endIndex_]]

IsRunning(m) == m.running_

\* operator[]
RunTest(m, testType, result) ==
    [ret |-> TestResult(m, testType, result),
     m |-> [m EXCEPT !.invoked = TestCalls(m, testType, result)]]

setContinueOnFail(m, testType, continueOnFail) ==
    [m EXCEPT !.tests_[testType].continueOnFail = continueOnFail, !.invoked = << >>]

TMReset(m) ==
    [m EXCEPT !.tests_ = [testType \in TestTypes |-> DefaultTest],
              !.currentIndex_ = 0 - 1,
              !.endIndex_ = 0 - 1,
              !.running_ = FALSE,
              !.invoked = << >>]

\* A call of the test manager: after is the manager it leaves
TMCall(op, ret, args, after) ==
    /\ tm' = after
    /\ obs' = Obs(op, ret, args, now, {})
    /\ UNCHANGED <<boot, threads, variant, now, am, vm, fired, streak>>
    /\ UNCHANGED <<sm, limiter, filter, array, call>>

TMAddTest(testType, continueOnFail) ==
    /\ ~tm.tests_[testType].added
    /\ TMCall("AddTest", TRUE, << >>,
              AddTest(tm, testType, continueOnFail))

TMSetAfterTestHook ==
    /\ ~tm.afterTestHook_
    /\ TMCall("SetAfterTestHook", TRUE, << >>, SetAfterTestHook(tm, TRUE))

TMStart(start, end) ==
    LET r == Start(tm, start, end)
    IN TMCall("Start", r.ret, <<start, end>>, r.m)

TMStep(result) ==
    LET r == Step(tm, result)
    IN TMCall("Step", r.ret, << >>, r.m)

TMIsRunning ==
    /\ obs.op # "IsRunning"
    /\ TMCall("IsRunning", IsRunning(tm), << >>, [tm EXCEPT !.invoked = << >>])

TMRunTest(testType, result) ==
    LET r == RunTest(tm, testType, result)
    IN TMCall("operator[]", r.ret, << >>, r.m)

TMSetContinueOnFail(testType, continueOnFail) ==
    /\ tm.tests_[testType].added
    /\ tm.tests_[testType].continueOnFail # continueOnFail
    /\ TMCall("setContinueOnFail", TRUE, << >>,
              setContinueOnFail(tm, testType, continueOnFail))

TMResetCall ==
    /\ tm.running_ \/ \E testType \in TestTypes : tm.tests_[testType].added
    /\ TMCall("Reset", TRUE, << >>, TMReset(tm))

InitT ==
    /\ NoMonitors
    /\ threads = NoThreads
    /\ obs = Obs("Init", FALSE, << >>, 0, {})
    /\ tm = TestManager
    /\ sm = Unbuilt
    /\ limiter = Unbuilt
    /\ filter = Unbuilt
    /\ array = Unbuilt
    /\ call = Unbuilt

NextT ==
    \/ \E testType \in TestTypes, continueOnFail \in BOOLEAN :
          TMAddTest(testType, continueOnFail)
    \/ TMSetAfterTestHook
    \/ \E start \in 0 .. MaxTests, end \in 0 .. MaxTests : TMStart(start, end)
    \/ \E result \in BOOLEAN : TMStep(result)
    \/ TMIsRunning
    \/ \E testType \in TestTypes, result \in BOOLEAN : TMRunTest(testType, result)
    \/ \E testType \in TestTypes, continueOnFail \in BOOLEAN :
          TMSetContinueOnFail(testType, continueOnFail)
    \/ TMResetCall

SpecT == InitT /\ [][NextT]_vars

\* The tests the last call ran
TestsRun(m) == SelectSeq(m.invoked, LAMBDA c : c[1] = "test")

\* The test Step ran last failed and is not to be continued after
FailedForGood(before, after) ==
    /\ ~TestsRun(after)[1][3]
    /\ ~before.tests_[before.currentIndex_].continueOnFail

\* C33: after a Start(s, e) that returned true, the Step calls run the tests
\* s, s+1, ..., e in increasing order, one per call and each at most once; the
\* sequence stops at the first test that fails with continueOnFail false, or
\* after test e; once it has stopped IsRunning() is false and a Step returns
\* false and runs neither a test nor the after-test hook.
C33_StepRunsTheRangeInOrder ==
    [][/\ (obs'.op = "Step" /\ tm.running_)
             => /\ Len(tm'.invoked) = IF tm.afterTestHook_ THEN 2 ELSE 1
                /\ Len(TestsRun(tm')) = 1
                /\ TestsRun(tm')[1][2] = tm.currentIndex_
                /\ tm'.ran = Append(tm.ran, tm.currentIndex_)
                /\ tm'.running_ = ~(\/ FailedForGood(tm, tm')
                                    \/ tm.currentIndex_ = tm.range[2])
                /\ obs'.ret = ~FailedForGood(tm, tm')
       /\ (obs'.op = "Step" /\ ~tm.running_)
             => /\ obs'.ret = FALSE
                /\ tm'.invoked = << >>
                /\ tm'.ran = tm.ran
                /\ ~tm'.running_
       /\ (obs'.op = "Start" /\ obs'.ret)
             => /\ tm'.running_
                /\ tm'.ran = << >>
                /\ tm'.range = obs'.args
       /\ obs'.op = "IsRunning" => obs'.ret = tm.running_
       /\ \A k \in 1 .. Len(tm'.ran) :
             /\ tm'.ran[k] = tm'.range[1] + k - 1
             /\ tm'.ran[k] <= tm'.range[2]]_vars

\* A Start(0, 2) whose three tests have all been run by three Step calls, the
\* last of which stopped the sequence
C33_Witness ==
    /\ obs.op = "Step"
    /\ obs.ret
    /\ tm.ran = <<0, 1, 2>>
    /\ ~tm.running_
    /\ tm.afterTestHook_

-----------------------------------------------------------------------------
(* ActionRunLimiter.  The members are atomics and no call takes a lock, so
   RunIfNeeded is three steps another thread may come between: CanRunAction(),
   action_(), MarkActionAsRun().  The fields invoked, returned and allowed are
   not the program's: since the construction or the last Reset, invoked counts
   the calls of action_, returned the RunIfNeeded calls that returned true, and
   allowed is the largest maxRunCount_ there has been. *)

MaxRunCount == 2

MaxInvocations == 4

\* The constructor
ActionRunLimiter(startRunCondition, maxRunCount) ==
    [ class |-> "ActionRunLimiter",
      condition_ |-> startRunCondition,
      maxRunCount_ |-> maxRunCount,
      actionRunCount_ |-> 0,
      invoked |-> 0,
      returned |-> 0,
      allowed |-> maxRunCount ]

CanRunAction(l) == l.condition_ /\ l.actionRunCount_ < l.maxRunCount_

MarkActionAsRun(l) == [l EXCEPT !.actionRunCount_ = (@ + 1) % UintModulus]

LimiterReset(l) ==
    [l EXCEPT !.actionRunCount_ = 0,
              !.invoked = 0,
              !.returned = 0,
              !.allowed = l.maxRunCount_]

SetMaxRunCount(l, count, reset) ==
    LET set == [l EXCEPT !.maxRunCount_ = count,
                         !.allowed = IF count > @ THEN count ELSE @]
    IN IF reset THEN LimiterReset(set) ELSE set

\* A step of thread t in the limiter: to is where it leaves the thread
LimiterStep(t, from, to, after, record) ==
    /\ threads.pc[t] = from
    /\ threads' = [threads EXCEPT !.pc[t] = to]
    /\ limiter' = after
    /\ obs' = record
    /\ UNCHANGED <<boot, variant, now, am, vm, fired, streak>>
    /\ UNCHANGED <<sm, tm, filter, array, call>>

EnableActionRun(t) ==
    /\ ~limiter.condition_
    /\ LimiterStep(t, "idle", "idle", [limiter EXCEPT !.condition_ = TRUE],
                   Obs("EnableActionRun", TRUE, <<t>>, now, {}))

DisableActionRun(t) ==
    /\ limiter.condition_
    /\ LimiterStep(t, "idle", "idle", [limiter EXCEPT !.condition_ = FALSE],
                   Obs("DisableActionRun", TRUE, <<t>>, now, {}))

LimiterResetCall(t) ==
    /\ limiter.invoked > 0
    /\ LimiterStep(t, "idle", "idle", LimiterReset(limiter), Obs("Reset", TRUE, <<t>>, now, {}))

SetMaxRunCountCall(t, count, reset) ==
    /\ count # limiter.maxRunCount_
    /\ LimiterStep(t, "idle", "idle", SetMaxRunCount(limiter, count, reset),
                   Obs("SetMaxRunCount", TRUE, <<t, count, reset>>, now, {}))

\* RunIfNeeded, first step: CanRunAction()
RunIfNeededCheck(t) ==
    /\ limiter.invoked < MaxInvocations
    /\ IF CanRunAction(limiter)
       THEN LimiterStep(t, "idle", "action_", limiter,
                        Obs("RunIfNeeded", FALSE, <<t>>, now, {"entered"}))
       ELSE LimiterStep(t, "idle", "idle", limiter,
                        Obs("RunIfNeeded", FALSE, <<t>>, now, {}))

\* RunIfNeeded, second step: action_(), which returns result
RunIfNeededAction(t, result) ==
    LimiterStep(t, "action_", IF result THEN "MarkActionAsRun" ELSE "idle",
                [limiter EXCEPT !.invoked = @ + 1],
                Obs("RunIfNeeded", FALSE, <<t>>, now,
                    IF result THEN {"entered", "action_"} ELSE {"action_"}))

\* RunIfNeeded, third step: MarkActionAsRun() and the return of true
RunIfNeededMark(t) ==
    LimiterStep(t, "MarkActionAsRun", "idle",
                [MarkActionAsRun(limiter) EXCEPT !.returned = @ + 1],
                Obs("RunIfNeeded", TRUE, <<t>>, now, {}))

InitA ==
    /\ NoMonitors
    /\ threads = NoThreads
    /\ obs = Obs("Init", FALSE, << >>, 0, {})
    /\ \E startRunCondition \in BOOLEAN, maxRunCount \in 0 .. MaxRunCount :
          limiter = ActionRunLimiter(startRunCondition, maxRunCount)
    /\ sm = Unbuilt
    /\ tm = Unbuilt
    /\ filter = Unbuilt
    /\ array = Unbuilt
    /\ call = Unbuilt

NextA ==
    \E t \in Threads :
       \/ EnableActionRun(t)
       \/ DisableActionRun(t)
       \/ LimiterResetCall(t)
       \/ \E count \in 0 .. MaxRunCount, reset \in BOOLEAN : SetMaxRunCountCall(t, count, reset)
       \/ RunIfNeededCheck(t)
       \/ \E result \in BOOLEAN : RunIfNeededAction(t, result)
       \/ RunIfNeededMark(t)

SpecA == InitA /\ [][NextA]_vars

\* C34: since the construction or the last Reset, RunIfNeeded() has invoked
\* the action at most maxRunCount times, and it invokes the action only while
\* the run condition is enabled.
C34_ActionIsInvokedAtMostMaxRunCountTimes ==
    [][limiter'.invoked = limiter.invoked + 1
          => /\ limiter'.invoked <= limiter'.allowed
             /\ limiter.condition_]_vars

\* C40: with RunIfNeeded() called from several threads, the calls that have
\* returned true since the construction or the last Reset are at most
\* maxRunCount.
C40_ConcurrentRunsStayWithinMaxRunCount == limiter.returned <= limiter.allowed

-----------------------------------------------------------------------------
(* TestLogicWithTimeout.  The call spins on GetElapsedTimeMsec(), so a run of
   it goes round the clock: its millisecond clock is a ring of ClockModulus
   values in place of 2^32, and endTime, which the code computes in 64 bits,
   is a sum that does not wrap.  The loop reads the clock far more often than
   the clock ticks: the clock ticks only while the call waits, and the
   evaluations of logic made within one millisecond count as one (tested).
   NO_WAIT is defined in none of the sources; it is taken to be 0.  The field
   elapsed is not the program's: the milliseconds since the call was entered,
   counted up to MaxElapsed. *)

ClockModulus == 16

MaxElapsed == 20

NO_WAIT == 0

Timeouts == {NO_WAIT, 1, 3}

CheckIntervals == {0, 2, 5}

CONSTRAIN(val, low, high) == IF val < low THEN low ELSE IF val > high THEN high ELSE val

\* The call as it is entered at the clock value msec
TestLogicWithTimeout(msec, timeoutMs, timeBetweenChecksMs) ==
    [ class |-> "TestLogicWithTimeout",
      pc |-> "entered",
      msec |-> msec,
      timeoutMs |-> timeoutMs,
      timeBetweenChecksMs |-> timeBetweenChecksMs,
      startTime |-> 0,
      endTime |-> 0,
      waitEnd |-> 0,
      status |-> FALSE,
      tested |-> FALSE,
      elapsed |-> 0 ]

GetElapsedTimeMsec(c) == c.msec

\* The return: *pTimeTakenSav is the out value of the record
Return(c, status) ==
    /\ call' = [c EXCEPT !.pc = "returned", !.status = status]
    /\ obs' = ObsOut("TestLogicWithTimeout", status,
                     [n |-> (GetElapsedTimeMsec(c) - c.startTime + ClockModulus) % ClockModulus,
                      d |-> 1],
                     <<c.timeoutMs, c.timeBetweenChecksMs>>, now, {})

\* A millisecond passes
ClockTick ==
    /\ call.pc = "wait"
    /\ GetElapsedTimeMsec(call) < call.waitEnd \/ call.tested
    /\ call' = [call EXCEPT !.msec = (@ + 1) % ClockModulus,
                            !.tested = FALSE,
                            !.elapsed = IF @ < MaxElapsed THEN @ + 1 ELSE @]
    /\ UNCHANGED <<obs, boot, threads, variant, now, am, vm, fired, streak>>
    /\ UNCHANGED <<sm, tm, limiter, filter, array>>

\* startTime, and the whole of the call when timeoutMs is NO_WAIT;
\* yields says that logic() returned the expected value
LogicEnter(yields) ==
    /\ call.pc = "entered"
    /\ LET c == [call EXCEPT !.startTime = GetElapsedTimeMsec(call)]
       IN IF c.timeoutMs = NO_WAIT
          THEN Return(c, yields)
          ELSE /\ call' = [c EXCEPT !.pc = "while", !.endTime = c.startTime + c.timeoutMs]
               /\ UNCHANGED obs
    /\ UNCHANGED <<boot, threads, variant, now, am, vm, fired, streak>>
    /\ UNCHANGED <<sm, tm, limiter, filter, array>>

\* The test of the outer loop and its body up to the inner loop
LogicTest(yields) ==
    /\ call.pc = "while"
    /\ IF GetElapsedTimeMsec(call) <= call.endTime
       THEN IF yields
            THEN Return(call, TRUE)
            ELSE /\ call' = [call EXCEPT
                       !.pc = "wait",
                       !.tested = TRUE,
                       !.waitEnd = (GetElapsedTimeMsec(call)
                                     + (CONSTRAIN(call.timeBetweenChecksMs, 1, call.timeoutMs)
                                          % Uint16Modulus)) % ClockModulus]
                 /\ UNCHANGED obs
       ELSE Return(call, FALSE)
    /\ UNCHANGED <<boot, threads, variant, now, am, vm, fired, streak>>
    /\ UNCHANGED <<sm, tm, limiter, filter, array>>

\* The inner loop is left
LogicWaitEnd ==
    /\ call.pc = "wait"
    /\ ~(GetElapsedTimeMsec(call) < call.waitEnd)
    /\ ~call.tested
    /\ call' = [call EXCEPT !.pc = "while"]
    /\ UNCHANGED <<obs, boot, threads, variant, now, am, vm, fired, streak>>
    /\ UNCHANGED <<sm, tm, limiter, filter, array>>

InitU ==
    /\ NoMonitors
    /\ threads = NoThreads
    /\ obs = Obs("Init", FALSE, << >>, 0, {})
    /\ \E msec \in 0 .. ClockModulus - 1, timeoutMs \in Timeouts,
          timeBetweenChecksMs \in CheckIntervals :
          call = TestLogicWithTimeout(msec, timeoutMs, timeBetweenChecksMs)
    /\ sm = Unbuilt
    /\ tm = Unbuilt
    /\ limiter = Unbuilt
    /\ filter = Unbuilt
    /\ array = Unbuilt

NextU ==
    \/ ClockTick
    \/ \E yields \in BOOLEAN : LogicEnter(yields)
    \/ \E yields \in BOOLEAN : LogicTest(yields)
    \/ LogicWaitEnd

\* The clock goes on and the call goes on running
SpecU == InitU /\ [][NextU]_vars /\ WF_vars(NextU)

\* C35: TestLogicWithTimeout always terminates, whatever the clock shows when
\* it is entered; when logic never yields the expected value it returns false
\* once timeoutMs milliseconds have passed, and no later than one check
\* interval after that.
C35_TestLogicWithTimeoutTerminates ==
    /\ <>(call.pc = "returned")
    /\ [](call.pc = "returned" /\ ~call.status /\ call.timeoutMs # NO_WAIT
            => /\ call.elapsed > call.timeoutMs
               /\ call.elapsed <= call.timeoutMs
                                    + CONSTRAIN(call.timeBetweenChecksMs, 1, call.timeoutMs))

-----------------------------------------------------------------------------
(* AveragingFilter<DataType, WindowSize>, as the generic template with
   DataType int and as the specialisation for uint16_t.  The values are small:
   their sums and averages are exact in double and in float.  A division of
   integers by zero is undefined: it returns any value, or the program stops
   there (halted). *)

WindowSize == 3

Slots == 0 .. WindowSize - 1

Specialisations == {"DataType", "uint16_t"}

FilterValues(specialisation) == IF specialisation = "uint16_t" THEN {0, 1, 4} ELSE {0 - 3, 1, 4}

\* The constructors
AveragingFilter(specialisation) ==
    [ class |-> "AveragingFilter",
      specialisation |-> specialisation,
      valuesLoadedCount |-> 0,
      nextSlot |-> 0,
      filter |-> [slot \in Slots |-> 0],
      halted |-> FALSE ]

\* Append and FastAppend, of the template and of the specialisation
FilterAppend(f, value) ==
    IF f.nextSlot < WindowSize
    THEN [f EXCEPT !.filter[f.nextSlot] = value,
                   !.nextSlot = @ + 1,
                   !.valuesLoadedCount = IF @ < WindowSize THEN @ + 1 ELSE @]
    ELSE [f EXCEPT !.filter[0] = value, !.nextSlot = 1]

FilterGetCount(f) == f.valuesLoadedCount

\* filter[0] + ... + filter[count - 1]
RECURSIVE FilterSum(_, _)
FilterSum(f, count) ==
    IF count = 0 THEN 0 ELSE FilterSum(f, count - 1) + f.filter[count - 1]

\* The conversion of the quotient n / d to an integral type: towards zero
Truncated(n, d) == IF n >= 0 THEN n \div d ELSE 0 - ((0 - n) \div d)

\* GetValue of the template, a float
FilterGetValue(f) ==
    IF f.valuesLoadedCount > 0
    THEN Div(FilterSum(f, f.valuesLoadedCount), f.valuesLoadedCount)
    ELSE Div(0, 1)

Emptied(f) == [f EXCEPT !.valuesLoadedCount = 0, !.nextSlot = 0]

\* Reset of the template: the outcomes of the call
GenericReset(f) ==
    LET value == FilterGetValue(f)
    IN {[ret |-> TRUE, out |-> Div(Truncated(value.n, value.d), 1), faults |-> {},
         f |-> Emptied(f)]}

\* Reset of the specialisation: the sum is divided by valuesLoadedCount after
\* valuesLoadedCount has been set to 0
Uint16Reset(f) ==
    IF f.valuesLoadedCount > 0
    THEN LET emptied == Emptied(f)
         IN IF emptied.valuesLoadedCount = 0
            THEN {[ret |-> TRUE, out |-> Div(value, 1), faults |-> {"zeroDiv"}, f |-> emptied] :
                      value \in {0, Uint16Modulus - 1,
                                 FilterSum(f, f.valuesLoadedCount) \div f.valuesLoadedCount}}
                   \cup {[ret |-> FALSE, out |-> NoOut, faults |-> {"zeroDiv"},
                          f |-> [emptied EXCEPT !.halted = TRUE]]}
            ELSE {[ret |-> TRUE,
                   out |-> Div((FilterSum(f, f.valuesLoadedCount)
                                  \div emptied.valuesLoadedCount) % Uint16Modulus, 1),
                   faults |-> {},
                   f |-> emptied]}
    ELSE {[ret |-> TRUE, out |-> Div(0, 1), faults |-> {}, f |-> f]}

FilterReset(f) == IF f.specialisation = "uint16_t" THEN Uint16Reset(f) ELSE GenericReset(f)

\* A call of the filter
FilterCall(op, ret, out, args, faults, after) ==
    /\ ~filter.halted
    /\ filter' = after
    /\ obs' = ObsOut(op, ret, out, args, now, faults)
    /\ UNCHANGED <<boot, threads, variant, now, am, vm, fired, streak>>
    /\ UNCHANGED <<sm, tm, limiter, array, call>>

FilterAppendCall(value) ==
    LET after == FilterAppend(filter, value)
    IN FilterCall("Append", after.valuesLoadedCount = WindowSize, NoOut, <<value>>, {}, after)

FilterResetCall ==
    \E r \in FilterReset(filter) : FilterCall("Reset", r.ret, r.out, << >>, r.faults, r.f)

FilterGetCountCall ==
    /\ obs.op # "GetCount"
    /\ FilterCall("GetCount", TRUE, Div(FilterGetCount(filter), 1), << >>, {}, filter)

InitF ==
    /\ NoMonitors
    /\ threads = NoThreads
    /\ obs = Obs("Init", FALSE, << >>, 0, {})
    /\ \E specialisation \in Specialisations : filter = AveragingFilter(specialisation)
    /\ sm = Unbuilt
    /\ tm = Unbuilt
    /\ limiter = Unbuilt
    /\ array = Unbuilt
    /\ call = Unbuilt

NextF ==
    \/ \E value \in FilterValues(filter.specialisation) : FilterAppendCall(value)
    \/ FilterResetCall
    \/ FilterGetCountCall

SpecF == InitF /\ [][NextF]_vars

\* The average of the values the filter holds, as a value of the data type
HeldAverage(f) ==
    IF f.valuesLoadedCount = 0
    THEN 0
    ELSE Truncated(FilterSum(f, f.valuesLoadedCount), f.valuesLoadedCount)

\* C36: Reset() returns the average of the values the filter held just before
\* the call, 0 if it held none, and leaves the filter empty, in the template
\* and in the specialisation for uint16_t, and it divides by no zero count.
C36_ResetReturnsTheAverage ==
    [][obs'.op = "Reset"
          => /\ obs'.ret
             /\ obs'.out = Div(HeldAverage(filter), 1)
             /\ FilterGetCount(filter') = 0
             /\ "zeroDiv" \notin obs'.faults]_vars

-----------------------------------------------------------------------------
(* DynamicArray<DataType, MaxCount>.  data is the whole std::array, the slots
   at and above count included: Insert rotates them into the slots below. *)

MaxCount == 3

Items == {1, 2}

\* The default constructor: data is value-initialised
DynamicArray == [class |-> "DynamicArray", data |-> [slot \in 0 .. MaxCount - 1 |-> 0], count |-> 0]

\* The elements of the array, first to last
Elements(a) == [i \in 1 .. a.count |-> a.data[i - 1]]

\* std::rotate(first, middle, last) on the slots of data: the element at
\* middle comes to first, the elements of [first, middle) follow those of
\* [middle, last)
Rotate(data, first, middle, last) ==
    [slot \in DOMAIN data |->
        IF first <= slot /\ slot < last
        THEN data[first + (((slot - first) + (middle - first)) % (last - first))]
        ELSE data[slot]]

ArrayAppend(a, item) ==
    IF a.count < MaxCount
    THEN [ret |-> TRUE, a |-> [a EXCEPT !.data[a.count] = item, !.count = @ + 1]]
    ELSE [ret |-> FALSE, a |-> a]

\* The slot of the first element that satisfies condition, count if none
\* does; condition is the set of the values it holds of
RECURSIVE FindIf(_, _, _)
FindIf(a, condition, from) ==
    IF from >= a.count \/ a.data[from] \in condition
    THEN from
    ELSE FindIf(a, condition, from + 1)

ArrayRemove(a, condition) ==
    LET it == FindIf(a, condition, 0)
    IN IF it # a.count
       THEN [ret |-> TRUE,
             a |-> [a EXCEPT !.data = [@ EXCEPT ![it] = a.data[a.count - 1],
                                                ![a.count - 1] = a.data[it]],
                             !.count = @ - 1]]
       ELSE [ret |-> FALSE, a |-> a]

ArrayInsert(a, index, item) ==
    IF index <= a.count /\ a.count < MaxCount
    THEN [ret |-> TRUE,
          a |-> [a EXCEPT !.data = [Rotate(a.data, index, a.count, MaxCount) EXCEPT ![index] = item],
                          !.count = @ + 1]]
    ELSE [ret |-> FALSE, a |-> a]

ClearAll(a) == [a EXCEPT !.count = 0]

\* A call of the array: r is its outcome
ArrayCall(op, args, r) ==
    /\ array' = r.a
    /\ obs' = Obs(op, r.ret, args, now, {})
    /\ UNCHANGED <<boot, threads, variant, now, am, vm, fired, streak>>
    /\ UNCHANGED <<sm, tm, limiter, filter, call>>

ArrayAppendCall(item) == ArrayCall("Append", <<item>>, ArrayAppend(array, item))

ArrayRemoveCall(item) ==
    ArrayCall("Remove", <<item>>, ArrayRemove(array, {item}))

ArrayInsertCall(index, item) ==
    ArrayCall("Insert", <<index, item>>, ArrayInsert(array, index, item))

ArrayClearAllCall ==
    /\ array.count > 0
    /\ ArrayCall("ClearAll", << >>, [ret |-> TRUE, a |-> ClearAll(array)])

InitD ==
    /\ NoMonitors
    /\ threads = NoThreads
    /\ obs = Obs("Init", FALSE, << >>, 0, {})
    /\ array = DynamicArray
    /\ sm = Unbuilt
    /\ tm = Unbuilt
    /\ limiter = Unbuilt
    /\ filter = Unbuilt
    /\ call = Unbuilt

NextD ==
    \/ \E item \in Items : ArrayAppendCall(item)
    \/ \E item \in Items : ArrayRemoveCall(item)
    \/ \E index \in 0 .. MaxCount, item \in Items : ArrayInsertCall(index, item)
    \/ ArrayClearAllCall

SpecD == InitD /\ [][NextD]_vars

\* C39: Insert(index, item) with index <= size() < MaxCount returns true, puts
\* item at index, moves the elements that were at index and above up by one
\* position in their order, leaves those below index where they were and
\* makes the size one more; any other Insert returns false and changes nothing.
C39_InsertShiftsTheTailByOne ==
    [][obs'.op = "Insert"
          => LET index == obs'.args[1]
                 item == obs'.args[2]
             IN IF index <= array.count /\ array.count < MaxCount
                THEN /\ obs'.ret
                     /\ array'.count = array.count + 1
                     /\ Elements(array') =
                           SubSeq(Elements(array), 1, index) \o <<item>>
                             \o SubSeq(Elements(array), index + 1, array.count)
                ELSE /\ ~obs'.ret
                     /\ array' = array]_vars

====
